---- MODULE Spec2Model ----
(***************************************************************************)
(* A model of the schedule generation engine of Mars-Scheduler             *)
(* (backend/app/services/scheduling_engine.py): the Cartesian product of   *)
(* one section per required course, the pairwise conflict filter, the      *)
(* weighted score and the ranking.                                         *)
(*                                                                         *)
(* Python values are modelled as follows.                                  *)
(*   - A dict is a TLA+ function (record) whose DOMAIN is the set of keys  *)
(*     present; dict.get(k, d) is Get.                                     *)
(*     A key that is present with the value None is not in the DOMAIN;     *)
(*     the dict lists it in its field nulls (IsNone).  The code reads      *)
(*     such a value only where doing so raises, or after a test for None.  *)
(*   - An Optional value is a sequence of length 0 (None) or 1.            *)
(*   - A time string is a record [fmt, h, m]; _parseTime computes from it  *)
(*     what datetime.strptime computes, a datetime.time, kept as the       *)
(*     number of minutes since midnight (time objects compare as           *)
(*     (hour, minute) does).                                               *)
(*   - A float is an exact rational, kept as an integer number of          *)
(*     1/Unit: ratings are given in tenths, means divide by the number of  *)
(*     sections, the gap score counts halves.                              *)
(***************************************************************************)
EXTENDS Integers, Sequences, FiniteSets, TLC

VARIABLES
    requiredCourses,    \* argument: sequence of course codes
    availableSections,  \* argument: dict course code -> list of sections
    preferences,        \* argument: dict of preference fields
    maxSchedules,       \* argument: int
    pc,                 \* "called" | "done" | "raised" ("off" when no call is made)
    sectionLists,       \* local of generateSchedules (line 42)
    combinations,       \* value returned by _generateCombinations (line 48)
    allSchedules,       \* local of generateSchedules before the sort (line 54)
    result,             \* the value generateSchedules returns
    section1,           \* arguments of _hasTimeConflict (SpecConflict)
    section2,
    conflictOut,        \* what the conflict filter answered for them
    candidate,          \* argument of _calculateScheduleScore (SpecScore)
    scoreOut,           \* what the scorer and its sub-scores returned for it
    dayMapping,         \* field of the engine (lines 14-20)
    frames,             \* SpecConcurrent: arguments, position and locals of each invocation
    allSchedulesOf,     \* SpecConcurrent: the allSchedules list of each invocation
    request,            \* SpecRoute: the ScheduleRequest of POST /generate
    umdApi,             \* SpecRoute: what the sections API answers for each course
    response,           \* SpecRoute: the status and body the route answers with
    stack               \* SpecSteps: the call stack of one generateSchedules call

vars == <<requiredCourses, availableSections, preferences, maxSchedules, pc,
          sectionLists, combinations, allSchedules, result,
          section1, section2, conflictOut, candidate, scoreOut, dayMapping,
          frames, allSchedulesOf, request, umdApi, response, stack>>

----------------------------------------------------------------------------
(* Bounds of the model *)

\* longest requiredCourses
MaxCourses == 2
\* longest section list of a course
MaxSections == 2
\* maxSchedules ranges over -MaxSchedulesBound .. MaxSchedulesBound
MaxSchedulesBound == 2
\* SpecConflict: start and end times lie on the half hours 9:00 + 30*k, k <= MaxSlot
MaxSlot == 3

----------------------------------------------------------------------------
(* Python values *)

None == <<>>
Some(v) == <<v>>

\* dict.get(k, default)
Get(d, k, default) == IF k \in DOMAIN d THEN d[k] ELSE default

\* the dict {}
EmptyDict == [k \in {} |-> TRUE]

\* d[k] is None
IsNone(d, k) == k \in Get(d, "nulls", {})

Min(a, b) == IF a <= b THEN a ELSE b
Max(a, b) == IF a >= b THEN a ELSE b

\* lst[:n]: a negative n counts from the end
SliceTo(lst, n) ==
    IF n >= 0 THEN SubSeq(lst, 1, Min(n, Len(lst)))
    ELSE SubSeq(lst, 1, Max(0, Len(lst) + n))

\* sorted(lst, key): stable, ascending. key is the sequence of the elements' keys.
SortedAscending(lst, key) ==
    LET rank(i) == Cardinality({j \in 1..Len(lst) :
                        key[j] < key[i] \/ (key[j] = key[i] /\ j < i)}) + 1
    IN [p \in 1..Len(lst) |-> lst[CHOOSE i \in 1..Len(lst) : rank(i) = p]]

\* lst.sort(key, reverse=True): stable, descending (equal keys keep their order)
SortedDescending(lst, key) ==
    LET rank(i) == Cardinality({j \in 1..Len(lst) :
                        key[j] > key[i] \/ (key[j] = key[i] /\ j < i)}) + 1
    IN [p \in 1..Len(lst) |-> lst[CHOOSE i \in 1..Len(lst) : rank(i) = p]]

RECURSIVE SumSeq(_)
SumSeq(s) == IF s = <<>> THEN 0 ELSE Head(s) + SumSeq(Tail(s))

\* the subsequence of the elements lst[i] with keep[i], in order
SelectIdx(lst, keep) ==
    LET idx == {i \in 1..Len(lst) : keep[i]}
        nth(p) == CHOOSE i \in idx : Cardinality({j \in idx : j < i}) = p - 1
    IN [p \in 1..Cardinality(idx) |-> lst[nth(p)]]

----------------------------------------------------------------------------
(* Time strings *)

\* "HH:MM" (24 hour), "HH:MMam" / "HH:MMpm" (12 hour; any case, any spaces),
\* a text that is no time ("TBA"), the empty string, and None
T24(h, m) == [fmt |-> "24h", h |-> h, m |-> m]
T12(h, m, ampm) == [fmt |-> ampm, h |-> h, m |-> m]
TextStr == [fmt |-> "text", h |-> 0, m |-> 0]
EmptyStr == [fmt |-> "empty", h |-> 0, m |-> 0]
NoneStr == [fmt |-> "none", h |-> 0, m |-> 0]

_parseTime(timeStr) ==
    IF timeStr.fmt \in {"none", "empty"} THEN None
    ELSE IF timeStr.fmt = "text" THEN None
    ELSE IF timeStr.fmt \in {"am", "pm"}
         THEN IF timeStr.h \in 1..12 /\ timeStr.m \in 0..59
              THEN Some(((timeStr.h % 12) + (IF timeStr.fmt = "pm" THEN 12 ELSE 0)) * 60
                        + timeStr.m)
              ELSE None
    ELSE IF timeStr.h \in 0..23 /\ timeStr.m \in 0..59
         THEN Some(timeStr.h * 60 + timeStr.m)
         ELSE None

----------------------------------------------------------------------------
(* The conflict filter *)

\* mutant: touching endpoints count as an overlap (< for <=)
_hasTimeConflictClosed(section1_, section2_) ==
    LET start1 == _parseTime(Get(section1_, "startTime", NoneStr))
        end1 == _parseTime(Get(section1_, "endTime", NoneStr))
        start2 == _parseTime(Get(section2_, "startTime", NoneStr))
        end2 == _parseTime(Get(section2_, "endTime", NoneStr))
    IN IF Get(section1_, "days", {}) \cap Get(section2_, "days", {}) = {} THEN FALSE
       ELSE IF \E t \in {start1, end1, start2, end2} : t = None THEN FALSE
       ELSE ~(end1[1] < start2[1] \/ end2[1] < start1[1])

\* mutant: the days are not looked at
_hasTimeConflictNoDays(section1_, section2_) ==
    LET start1 == _parseTime(Get(section1_, "startTime", NoneStr))
        end1 == _parseTime(Get(section1_, "endTime", NoneStr))
        start2 == _parseTime(Get(section2_, "startTime", NoneStr))
        end2 == _parseTime(Get(section2_, "endTime", NoneStr))
    IN IF \E t \in {start1, end1, start2, end2} : t = None THEN FALSE
       ELSE ~(end1[1] <= start2[1] \/ end2[1] <= start1[1])

\* mutant: only "section1 ends before section2 starts" rules a conflict out
_hasTimeConflictOneSided(section1_, section2_) ==
    LET start1 == _parseTime(Get(section1_, "startTime", NoneStr))
        end1 == _parseTime(Get(section1_, "endTime", NoneStr))
        start2 == _parseTime(Get(section2_, "startTime", NoneStr))
        end2 == _parseTime(Get(section2_, "endTime", NoneStr))
    IN IF Get(section1_, "days", {}) \cap Get(section2_, "days", {}) = {} THEN FALSE
       ELSE IF \E t \in {start1, end1, start2, end2} : t = None THEN FALSE
       ELSE ~(end1[1] <= start2[1])

\* mutant: a time that does not parse counts as time.min, as the sort keys do
_hasTimeConflictNoneAsMin(section1_, section2_) ==
    LET orMin(t) == IF t = None THEN 0 ELSE t[1]
        start1 == orMin(_parseTime(Get(section1_, "startTime", NoneStr)))
        end1 == orMin(_parseTime(Get(section1_, "endTime", NoneStr)))
        start2 == orMin(_parseTime(Get(section2_, "startTime", NoneStr)))
        end2 == orMin(_parseTime(Get(section2_, "endTime", NoneStr)))
    IN IF Get(section1_, "days", {}) \cap Get(section2_, "days", {}) = {} THEN FALSE
       ELSE ~(end1 <= start2 \/ end2 <= start1)

_hasTimeConflict(section1_, section2_) ==
    LET days1 == Get(section1_, "days", {})
        days2 == Get(section2_, "days", {})
    IN IF days1 \cap days2 = {} THEN FALSE
       ELSE LET start1 == _parseTime(Get(section1_, "startTime", NoneStr))
                end1 == _parseTime(Get(section1_, "endTime", NoneStr))
                start2 == _parseTime(Get(section2_, "startTime", NoneStr))
                end2 == _parseTime(Get(section2_, "endTime", NoneStr))
            IN IF \E t \in {start1, end1, start2, end2} : t = None THEN FALSE
               ELSE ~(end1[1] <= start2[1] \/ end2[1] <= start1[1])

\* mutant: the inner loop starts one section too late
_hasValidTimeConflictsSkipNext(sections) ==
    \A i \in 1..Len(sections) : \A j \in (i + 2)..Len(sections) :
        ~_hasTimeConflict(sections[i], sections[j])

_hasValidTimeConflicts(sections) ==
    \A i \in 1..Len(sections) : \A j \in (i + 1)..Len(sections) :
        ~_hasTimeConflict(sections[i], sections[j])

----------------------------------------------------------------------------
(* The combination generator *)

\* mutant: the loop over firstSections returns after its first section
RECURSIVE _generateCombinationsFirstOnly(_)
_generateCombinationsFirstOnly(lists) ==
    IF lists = <<>> THEN << <<>> >>
    ELSE IF Len(lists) = 1
         THEN [i \in 1..Len(lists[1]) |-> <<lists[1][i]>>]
    ELSE LET restCombinations == _generateCombinationsFirstOnly(Tail(lists))
         IN [k \in 1..Len(restCombinations) |-> <<lists[1][1]>> \o restCombinations[k]]

\* mutant: restCombo + [section], the first course's section last
RECURSIVE _generateCombinationsAppended(_)
_generateCombinationsAppended(lists) ==
    IF lists = <<>> THEN << <<>> >>
    ELSE IF Len(lists) = 1
         THEN [i \in 1..Len(lists[1]) |-> <<lists[1][i]>>]
    ELSE LET restCombinations == _generateCombinationsAppended(Tail(lists))
             n == Len(restCombinations)
         IN [k \in 1..(Len(lists[1]) * n) |->
                restCombinations[((k - 1) % n) + 1]
                    \o <<lists[1][((k - 1) \div n) + 1]>>]

\* mutant: no section lists give no combination (return [] for return [[]])
RECURSIVE _generateCombinationsEmptyBase(_)
_generateCombinationsEmptyBase(lists) ==
    IF lists = <<>> THEN <<>>
    ELSE IF Len(lists) = 1
         THEN [i \in 1..Len(lists[1]) |-> <<lists[1][i]>>]
    ELSE LET restCombinations == _generateCombinationsEmptyBase(Tail(lists))
             n == Len(restCombinations)
         IN [k \in 1..(Len(lists[1]) * n) |->
                <<lists[1][((k - 1) \div n) + 1]>>
                    \o restCombinations[((k - 1) % n) + 1]]

RECURSIVE _generateCombinations(_)
_generateCombinations(lists) ==
    IF lists = <<>> THEN << <<>> >>
    ELSE IF Len(lists) = 1
         THEN [i \in 1..Len(lists[1]) |-> <<lists[1][i]>>]
    ELSE LET firstSections == lists[1]
             restCombinations == _generateCombinations(Tail(lists))
             n == Len(restCombinations)
         IN [k \in 1..(Len(firstSections) * n) |->
                <<firstSections[((k - 1) \div n) + 1]>>
                    \o restCombinations[((k - 1) % n) + 1]]

----------------------------------------------------------------------------
(* The scorer.  A float f is kept as the integer f * Unit. *)

Unit == 120 * 10
\* a rating or GPA is given in tenths (40 is 4.0)
TenthUnit == Unit \div 10

\* section.get("professor", {}).get("aggregatedScore", 3.0), and the mean of no ratings
DefaultRating == 30
EmptyRating == 30
\* section.get("professor", {}).get("planetTerpAvgGPA", 3.0), and the mean of no GPAs
DefaultGPA == 30
EmptyGPA == 30

RatingWeight == 20
GPAWeight == 15
TimeWeight == 25
DayWeight == 10
BackToBackWeight == 10
GapWeight == 5

MorningFrom == 8
AfternoonFrom == 12
EveningFrom == 17
EveningTo == 21

BackToBackMinutes == 15
GoodGapFrom == 30
GoodGapTo == 90
LargeGap == 180

\* mutant: the rating is read from the GPA key
_calculateAverageProfessorRatingFromGPA(sections) ==
    LET ratings == [i \in 1..Len(sections) |->
                       Get(Get(sections[i], "professor", EmptyDict),
                           "planetTerpAvgGPA", DefaultRating)]
    IN IF Len(ratings) > 0
       THEN (SumSeq(ratings) * TenthUnit) \div Len(ratings)
       ELSE EmptyRating * TenthUnit

_calculateAverageProfessorRating(sections) ==
    LET ratings == [i \in 1..Len(sections) |->
                       Get(Get(sections[i], "professor", EmptyDict),
                           "aggregatedScore", DefaultRating)]
    IN IF Len(ratings) > 0
       THEN (SumSeq(ratings) * TenthUnit) \div Len(ratings)
       ELSE EmptyRating * TenthUnit

_calculateAverageGPA(sections) ==
    LET gpas == [i \in 1..Len(sections) |->
                    Get(Get(sections[i], "professor", EmptyDict),
                        "planetTerpAvgGPA", DefaultGPA)]
    IN IF Len(gpas) > 0
       THEN (SumSeq(gpas) * TenthUnit) \div Len(gpas)
       ELSE EmptyGPA * TenthUnit

\* mutant: the windows are closed at their upper ends (<= for <)
_calculateTimePreferenceScoreClosed(sections, prefs) ==
    LET preferMorning == Get(prefs, "preferMorning", FALSE)
        preferAfternoon == Get(prefs, "preferAfternoon", FALSE)
        preferEvening == Get(prefs, "preferEvening", FALSE)
        point(section) ==
            LET startTime == _parseTime(Get(section, "startTime", NoneStr))
            IN IF startTime = None THEN 0
               ELSE LET hour == startTime[1] \div 60
                    IN IF preferMorning /\ MorningFrom <= hour /\ hour <= AfternoonFrom
                       THEN Unit
                       ELSE IF preferAfternoon /\ AfternoonFrom <= hour /\ hour <= EveningFrom
                       THEN Unit
                       ELSE IF preferEvening /\ EveningFrom <= hour /\ hour <= EveningTo
                       THEN Unit
                       ELSE 0
        score == SumSeq([i \in 1..Len(sections) |-> point(sections[i])])
    IN IF Len(sections) > 0 THEN score \div Len(sections) ELSE 0

_calculateTimePreferenceScore(sections, prefs) ==
    LET preferMorning == Get(prefs, "preferMorning", FALSE)
        preferAfternoon == Get(prefs, "preferAfternoon", FALSE)
        preferEvening == Get(prefs, "preferEvening", FALSE)
        point(section) ==
            LET startTime == _parseTime(Get(section, "startTime", NoneStr))
            IN IF startTime = None THEN 0
               ELSE LET hour == startTime[1] \div 60
                    IN IF preferMorning /\ MorningFrom <= hour /\ hour < AfternoonFrom
                       THEN Unit
                       ELSE IF preferAfternoon /\ AfternoonFrom <= hour /\ hour < EveningFrom
                       THEN Unit
                       ELSE IF preferEvening /\ EveningFrom <= hour /\ hour < EveningTo
                       THEN Unit
                       ELSE 0
        score == SumSeq([i \in 1..Len(sections) |-> point(sections[i])])
    IN IF Len(sections) > 0 THEN score \div Len(sections) ELSE 0

\* mutant: no neutral score without preferred days
_calculateDayPreferenceScoreNoNeutral(sections, prefs) ==
    LET preferredDays == Get(prefs, "preferredDays", {})
        point(section) ==
            IF Get(section, "days", {}) \cap preferredDays # {} THEN Unit ELSE 0
        score == SumSeq([i \in 1..Len(sections) |-> point(sections[i])])
    IN IF Len(sections) > 0 THEN score \div Len(sections) ELSE 0

_calculateDayPreferenceScore(sections, prefs) ==
    LET preferredDays == Get(prefs, "preferredDays", {})
    IN IF preferredDays = {} THEN Unit
       ELSE LET point(section) ==
                    IF Get(section, "days", {}) \cap preferredDays # {} THEN Unit ELSE 0
                score == SumSeq([i \in 1..Len(sections) |-> point(sections[i])])
            IN IF Len(sections) > 0 THEN score \div Len(sections) ELSE 0

\* daySchedules[day]: the sections that meet on day, in the candidate's order
DaysOf(sections) == UNION {Get(sections[i], "days", {}) : i \in 1..Len(sections)}
DaySections(sections, day) ==
    SelectIdx(sections, [i \in 1..Len(sections) |-> day \in Get(sections[i], "days", {})])

\* sorted(daySections, key=lambda s: self._parseTime(s.get("startTime")) or time.min)
SortedSections(daySections) ==
    SortedAscending(daySections,
        [i \in 1..Len(daySections) |->
            LET t == _parseTime(Get(daySections[i], "startTime", NoneStr))
            IN IF t = None THEN 0 ELSE t[1]])

\* mutant: the whole difference (total_seconds()) instead of its seconds field
MinutesBetweenOnTotal(endTime1, startTime2, date1, date2) ==
    ((startTime2 + 1440 * date2 - (endTime1 + 1440 * date1)) * 60) \div 60

\* (datetime.combine(datetime.today(), startTime2)
\*  - datetime.combine(datetime.today(), endTime1)).seconds / 60
\* date2 and date1 are the days the two calls of today() return, counted from the
\* day the call began.  A timedelta is normalised to days and 0 <= seconds < 86400,
\* and .seconds drops the days.
MinutesBetweenOn(endTime1, startTime2, date1, date2) ==
    (((startTime2 + 1440 * date2 - (endTime1 + 1440 * date1)) * 60) % 86400) \div 60

\* the same when the date does not change during the call
MinutesBetween(endTime1, startTime2) == MinutesBetweenOn(endTime1, startTime2, 0, 0)

\* the gaps between the consecutive sections of one day, where both times parse
DayGaps(sortedSections) ==
    LET gap(i) ==
            LET endTime1 == _parseTime(Get(sortedSections[i], "endTime", NoneStr))
                startTime2 == _parseTime(Get(sortedSections[i + 1], "startTime", NoneStr))
            IN IF endTime1 # None /\ startTime2 # None
               THEN Some(MinutesBetween(endTime1[1], startTime2[1]))
               ELSE None
    IN [i \in 1..(Len(sortedSections) - 1) |-> gap(i)]

\* the gaps of every day's chain, one day after the other
RECURSIVE GapsOverDays(_, _)
GapsOverDays(days, sections) ==
    IF days = {} THEN <<>>
    ELSE LET day == CHOOSE d \in days : TRUE
         IN DayGaps(SortedSections(DaySections(sections, day)))
            \o GapsOverDays(days \ {day}, sections)

AllGaps(sections) == GapsOverDays(DaysOf(sections), sections)

\* the day the r-th call of today() returns when the date changes just before the
\* midnight-th call (never when midnight = 0)
DateOfRead(r, midnight) == IF midnight # 0 /\ r >= midnight THEN 1 ELSE 0

\* the pairs among the first n of a day's chain whose times parse: each calls today()
\* twice, first for startTime2, then for endTime1
PairsRead(sortedSections, n) ==
    Cardinality({i \in 1..n :
        /\ _parseTime(Get(sortedSections[i], "endTime", NoneStr)) # None
        /\ _parseTime(Get(sortedSections[i + 1], "startTime", NoneStr)) # None})

\* DayGaps when readsBefore calls of today() were made before this day's chain
DayGapsAt(sortedSections, readsBefore, midnight) ==
    LET gap(i) ==
            LET endTime1 == _parseTime(Get(sortedSections[i], "endTime", NoneStr))
                startTime2 == _parseTime(Get(sortedSections[i + 1], "startTime", NoneStr))
                reads == readsBefore + 2 * PairsRead(sortedSections, i - 1)
            IN IF endTime1 # None /\ startTime2 # None
               THEN Some(MinutesBetweenOn(endTime1[1], startTime2[1],
                                          DateOfRead(reads + 2, midnight),
                                          DateOfRead(reads + 1, midnight)))
               ELSE None
    IN [i \in 1..(Len(sortedSections) - 1) |-> gap(i)]

RECURSIVE GapsOverDaysAt(_, _, _, _)
GapsOverDaysAt(days, sections, readsBefore, midnight) ==
    IF days = {} THEN <<>>
    ELSE LET day == CHOOSE d \in days : TRUE
             sortedSections == SortedSections(DaySections(sections, day))
         IN DayGapsAt(sortedSections, readsBefore, midnight)
            \o GapsOverDaysAt(days \ {day}, sections,
                   readsBefore + 2 * PairsRead(sortedSections, Len(sortedSections) - 1),
                   midnight)

\* the gaps of one pass over the days (lines 271-287, and again lines 304-322) when
\* the date changes just before the pass's midnight-th call of today()
AllGapsAt(sections, midnight) == GapsOverDaysAt(DaysOf(sections), sections, 0, midnight)

_calculateBackToBackPenalty(sections) ==
    LET gaps == AllGaps(sections)
    IN SumSeq([i \in 1..Len(gaps) |->
           IF gaps[i] # None /\ gaps[i][1] < BackToBackMinutes THEN Unit ELSE 0])

_calculateGapScore(sections) ==
    LET gaps == AllGaps(sections)
    IN SumSeq([i \in 1..Len(gaps) |->
           IF gaps[i] = None THEN 0
           ELSE IF GoodGapFrom <= gaps[i][1] /\ gaps[i][1] <= GoodGapTo THEN Unit
           ELSE IF gaps[i][1] > LargeGap THEN 0 - (Unit \div 2)
           ELSE 0])

\* mutant: the GPA term is added whatever prioritizeEasyGPA says
_calculateScheduleScoreAlwaysGPA(sections, prefs) ==
    (IF Get(prefs, "prioritizeProfessorRating", TRUE)
        THEN _calculateAverageProfessorRating(sections) * RatingWeight ELSE 0)
    + _calculateAverageGPA(sections) * GPAWeight
    + _calculateTimePreferenceScore(sections, prefs) * TimeWeight
    + _calculateDayPreferenceScore(sections, prefs) * DayWeight
    - (IF Get(prefs, "avoidBackToBack", FALSE)
        THEN _calculateBackToBackPenalty(sections) * BackToBackWeight ELSE 0)
    + _calculateGapScore(sections) * GapWeight

\* mutant: an absent prioritizeProfessorRating counts as False
_calculateScheduleScoreRatingOffByDefault(sections, prefs) ==
    (IF Get(prefs, "prioritizeProfessorRating", FALSE)
        THEN _calculateAverageProfessorRating(sections) * RatingWeight ELSE 0)
    + (IF Get(prefs, "prioritizeEasyGPA", FALSE)
        THEN _calculateAverageGPA(sections) * GPAWeight ELSE 0)
    + _calculateTimePreferenceScore(sections, prefs) * TimeWeight
    + _calculateDayPreferenceScore(sections, prefs) * DayWeight
    - (IF Get(prefs, "avoidBackToBack", FALSE)
        THEN _calculateBackToBackPenalty(sections) * BackToBackWeight ELSE 0)
    + _calculateGapScore(sections) * GapWeight

_calculateScheduleScore(sections, prefs) ==
    (IF Get(prefs, "prioritizeProfessorRating", TRUE)
        THEN _calculateAverageProfessorRating(sections) * RatingWeight ELSE 0)
    + (IF Get(prefs, "prioritizeEasyGPA", FALSE)
        THEN _calculateAverageGPA(sections) * GPAWeight ELSE 0)
    + _calculateTimePreferenceScore(sections, prefs) * TimeWeight
    + _calculateDayPreferenceScore(sections, prefs) * DayWeight
    - (IF Get(prefs, "avoidBackToBack", FALSE)
        THEN _calculateBackToBackPenalty(sections) * BackToBackWeight ELSE 0)
    + _calculateGapScore(sections) * GapWeight

----------------------------------------------------------------------------
(* Where a call raises *)

\* set(None) (lines 114, 115, 250) and "for day in None" (lines 264, 298): TypeError
DaysRaise(section) == IsNone(section, "days")

_hasTimeConflictRaises(section1_, section2_) ==
    DaysRaise(section1_) \/ DaysRaise(section2_)

\* the pairs are tested in the order (1,2), (1,3), .., (2,3), ..; the first conflict
\* returns, so a pair raises only if no pair before it conflicts
_hasValidTimeConflictsRaises(sections) ==
    \E i \in 1..Len(sections) : \E j \in (i + 1)..Len(sections) :
        /\ _hasTimeConflictRaises(sections[i], sections[j])
        /\ \A a \in 1..i : \A b \in (a + 1)..Len(sections) :
              (a < i \/ b < j) =>
                  /\ ~_hasTimeConflictRaises(sections[a], sections[b])
                  /\ ~_hasTimeConflict(sections[a], sections[b])

\* None.get (AttributeError) when professor is None; sum over a list that holds
\* None (TypeError) when the rating is None
_calculateAverageProfessorRatingRaises(sections) ==
    \E i \in 1..Len(sections) :
        \/ IsNone(sections[i], "professor")
        \/ IsNone(Get(sections[i], "professor", EmptyDict), "aggregatedScore")

_calculateAverageGPARaises(sections) ==
    \E i \in 1..Len(sections) :
        \/ IsNone(sections[i], "professor")
        \/ IsNone(Get(sections[i], "professor", EmptyDict), "planetTerpAvgGPA")

_calculateScheduleScoreRaises(sections, prefs) ==
    \/ /\ Get(prefs, "prioritizeProfessorRating", TRUE)
       /\ _calculateAverageProfessorRatingRaises(sections)
    \/ /\ Get(prefs, "prioritizeEasyGPA", FALSE)
       /\ _calculateAverageGPARaises(sections)
    \/ /\ Get(prefs, "preferredDays", {}) # {}
       /\ \E i \in 1..Len(sections) : DaysRaise(sections[i])
    \/ /\ Get(prefs, "avoidBackToBack", FALSE)
       /\ \E i \in 1..Len(sections) : DaysRaise(sections[i])
    \/ \E i \in 1..Len(sections) : DaysRaise(sections[i])

\* the loop of lines 48-54 raises when the filter or the scorer raises on a combination
LoopRaises(combos, prefs) ==
    \E k \in 1..Len(combos) :
        \/ _hasValidTimeConflictsRaises(combos[k])
        \/ /\ _hasValidTimeConflicts(combos[k])
           /\ _calculateScheduleScoreRaises(combos[k], prefs)

----------------------------------------------------------------------------
(* generateSchedules *)

\* mutant: a course that availableSections does not hold is skipped
SectionListsOfPresent(required, available) ==
    LET present == SelectIdx(required,
                       [i \in 1..Len(required) |-> required[i] \in DOMAIN available])
    IN [i \in 1..Len(present) |-> available[present[i]]]

\* [availableSections.get(course, []) for course in requiredCourses]
SectionListsOf(required, available) ==
    [i \in 1..Len(required) |-> Get(available, required[i], <<>>)]

\* all(sectionLists): a list is true when it is not empty
AllNonEmpty(lists) == \A i \in 1..Len(lists) : lists[i] # <<>>

\* the loop over the combinations: those that pass the filter, scored, in order
ScoredSchedules(combos, prefs) ==
    LET valid == SelectIdx(combos,
                     [k \in 1..Len(combos) |-> _hasValidTimeConflicts(combos[k])])
    IN [k \in 1..Len(valid) |->
           [sections |-> valid[k], score |-> _calculateScheduleScore(valid[k], prefs)]]

\* mutant: sorted ascending and then reversed, which reverses equal scores too
TopSchedulesReversed(schedules, n) ==
    LET ascending == SortedAscending(schedules,
                         [k \in 1..Len(schedules) |-> schedules[k].score])
    IN SliceTo([k \in 1..Len(ascending) |-> ascending[Len(ascending) + 1 - k]], n)

\* mutant: the sort without reverse=True
TopSchedulesAscending(schedules, n) ==
    SliceTo(SortedAscending(schedules,
                [k \in 1..Len(schedules) |-> schedules[k].score]), n)

\* allSchedules.sort(key=lambda x: x["score"], reverse=True); allSchedules[:maxSchedules]
TopSchedules(schedules, n) ==
    SliceTo(SortedDescending(schedules,
                [k \in 1..Len(schedules) |-> schedules[k].score]), n)

\* self.dayMapping as __init__ leaves it
DayMappingOfInit ==
    [M |-> "Monday", Tu |-> "Tuesday", W |-> "Wednesday", Th |-> "Thursday",
     F |-> "Friday"]

\* scoreOut before the scorer was called
NoScoreOut ==
    [scored |-> FALSE, score |-> 0, rating |-> 0, gpa |-> 0, time |-> 0, day |-> 0,
     backToBack |-> 0, gap |-> 0, raised |-> <<>>, defaulted |-> 0,
     gaps |-> <<>>, gapsAt |-> <<>>]

NoConflictOut == [checked |-> FALSE, ab |-> FALSE, ba |-> FALSE, valid |-> FALSE]

\* request and response before the route was called
NoRequest ==
    [userId |-> "", semester |-> "", year |-> 0, requiredCourses |-> None,
     preferences |-> None]

NoResponse == [status |-> 0, body |-> <<>>, detail |-> ""]

\* mutant: the loop takes the sections out of the lists of availableSections
\* (currentList.pop(0)), which leaves the lists of the required courses empty
generateSchedulesPopping ==
    /\ pc = "called"
    /\ LET lists == SectionListsOf(requiredCourses, availableSections)
       IN /\ sectionLists' = lists
          /\ combinations' = IF AllNonEmpty(lists) THEN _generateCombinations(lists)
                             ELSE <<>>
          /\ allSchedules' = ScoredSchedules(combinations', preferences)
          /\ result' = TopSchedules(allSchedules', maxSchedules)
          /\ availableSections' =
                IF AllNonEmpty(lists)
                THEN [c \in DOMAIN availableSections |->
                         IF \E i \in 1..Len(requiredCourses) : requiredCourses[i] = c
                         THEN <<>> ELSE availableSections[c]]
                ELSE availableSections
    /\ pc' = "done"
    /\ UNCHANGED <<requiredCourses, preferences, maxSchedules,
                   section1, section2, conflictOut, candidate, scoreOut, dayMapping,
                   frames, allSchedulesOf, request, umdApi, response, stack>>

generateSchedules ==
    /\ pc = "called"
    /\ LET lists == SectionListsOf(requiredCourses, availableSections)
       IN /\ sectionLists' = lists
          /\ \/ /\ ~AllNonEmpty(lists)
                /\ combinations' = <<>>
                /\ allSchedules' = <<>>
                /\ result' = <<>>
                /\ pc' = "done"
             \/ /\ AllNonEmpty(lists)
                /\ combinations' = _generateCombinations(lists)
                /\ IF LoopRaises(combinations', preferences)
                   THEN /\ allSchedules' = <<>>
                        /\ result' = <<>>
                        /\ pc' = "raised"
                   ELSE /\ allSchedules' = ScoredSchedules(combinations', preferences)
                        /\ result' = TopSchedules(allSchedules', maxSchedules)
                        /\ pc' = "done"
    /\ UNCHANGED <<requiredCourses, availableSections, preferences, maxSchedules,
                   section1, section2, conflictOut, candidate, scoreOut, dayMapping,
                   frames, allSchedulesOf, request, umdApi, response, stack>>

----------------------------------------------------------------------------
(* The calls of Spec *)

Courses == {"CMSC131", "MATH140"}

\* the sections each course offers
Pool(course) ==
    IF course = "CMSC131"
    THEN {[courseCode |-> "CMSC131", sectionNumber |-> "0101", days |-> {"M", "W"},
           startTime |-> T24(9, 0), endTime |-> T24(9, 50),
           professor |-> [aggregatedScore |-> 40, planetTerpAvgGPA |-> 32]],
          [courseCode |-> "CMSC131", sectionNumber |-> "0201", days |-> {"M", "W"},
           startTime |-> T12(10, 0, "am"), endTime |-> T12(10, 50, "am"),
           professor |-> EmptyDict]}
    ELSE {[courseCode |-> "MATH140", sectionNumber |-> "0111", days |-> {"M"},
           startTime |-> T24(9, 30), endTime |-> T24(10, 30),
           professor |-> [aggregatedScore |-> 45]],
          [courseCode |-> "MATH140", sectionNumber |-> "0211", days |-> {"M", "Tu"},
           startTime |-> T24(9, 50), endTime |-> T24(10, 0)]}

SeqUpTo(S, n) == UNION {[1..k -> S] : k \in 0..n}

\* a dict that maps some of the courses to a list of their sections
AvailableSectionsChoices ==
    UNION {{f \in [D -> SeqUpTo(UNION {Pool(c) : c \in D}, MaxSections)] :
                \A c \in D : \A i \in 1..Len(f[c]) : f[c][i] \in Pool(c)} :
           D \in SUBSET Courses}

PreferencesChoices ==
    {EmptyDict,
     [prioritizeProfessorRating |-> FALSE, preferMorning |-> TRUE,
      avoidBackToBack |-> TRUE],
     [prioritizeEasyGPA |-> TRUE, preferAfternoon |-> TRUE, preferredDays |-> {"Tu"}]}

Init ==
    /\ requiredCourses \in SeqUpTo(Courses, MaxCourses)
    /\ availableSections \in AvailableSectionsChoices
    /\ preferences \in PreferencesChoices
    /\ maxSchedules \in (0 - MaxSchedulesBound)..MaxSchedulesBound
    /\ pc = "called"
    /\ sectionLists = <<>>
    /\ combinations = <<>>
    /\ allSchedules = <<>>
    /\ result = <<>>
    /\ section1 = EmptyDict
    /\ section2 = EmptyDict
    /\ conflictOut = NoConflictOut
    /\ candidate = <<>>
    /\ scoreOut = NoScoreOut
    /\ dayMapping = DayMappingOfInit
    /\ frames = <<>>
    /\ allSchedulesOf = <<>>
    /\ request = NoRequest
    /\ umdApi = EmptyDict
    /\ response = NoResponse
    /\ stack = <<>>

Next == generateSchedules

Spec == Init /\ [][Next]_vars

----------------------------------------------------------------------------
(* SpecConflict: the conflict filter applied to two sections *)

ConflictDays == {"M", "W"}

\* 9:00, 9:30, 10:00, ... as "HH:MM", 10:00 also as "10:00am", and what
\* _parseTime turns into None: None, "", "25:00" and a text that is no time
ConflictTimeStrings ==
    {T24(9 + (k \div 2), 30 * (k % 2)) : k \in 0..MaxSlot}
    \cup {T12(10, 0, "am"), NoneStr, EmptyStr, T24(25, 0), TextStr}

\* sections with every key, and sections from which keys are missing
ConflictSections ==
    [days : SUBSET ConflictDays, startTime : ConflictTimeStrings,
     endTime : ConflictTimeStrings]
    \cup {[days |-> {"M"}],
          [days |-> {"M"}, startTime |-> T24(9, 0)],
          [days |-> {"M", "W"}, endTime |-> T24(10, 0)],
          [startTime |-> T24(9, 0), endTime |-> T24(10, 0)]}

checkConflict ==
    /\ ~conflictOut.checked
    /\ conflictOut' = [checked |-> TRUE,
                       ab |-> _hasTimeConflict(section1, section2),
                       ba |-> _hasTimeConflict(section2, section1),
                       valid |-> _hasValidTimeConflicts(<<section1, section2>>)]
    /\ UNCHANGED <<requiredCourses, availableSections, preferences, maxSchedules, pc,
                   sectionLists, combinations, allSchedules, result,
                   section1, section2, candidate, scoreOut, dayMapping,
                   frames, allSchedulesOf, request, umdApi, response, stack>>

InitConflict ==
    /\ section1 \in ConflictSections
    /\ section2 \in ConflictSections
    /\ conflictOut = NoConflictOut
    /\ requiredCourses = <<>>
    /\ availableSections = EmptyDict
    /\ preferences = EmptyDict
    /\ maxSchedules = 0
    /\ pc = "off"
    /\ sectionLists = <<>>
    /\ combinations = <<>>
    /\ allSchedules = <<>>
    /\ result = <<>>
    /\ candidate = <<>>
    /\ scoreOut = NoScoreOut
    /\ dayMapping = DayMappingOfInit
    /\ frames = <<>>
    /\ allSchedulesOf = <<>>
    /\ request = NoRequest
    /\ umdApi = EmptyDict
    /\ response = NoResponse
    /\ stack = <<>>

NextConflict == checkConflict

SpecConflict == InitConflict /\ [][NextConflict]_vars

----------------------------------------------------------------------------
(* SpecScore: the scorer applied to one candidate under one preferences record *)

\* longest candidate scored
MaxCandidate == 2
\* what a professor's aggregatedScore is raised by, in tenths
RatingStep == 5

\* sections in the morning, afternoon and evening windows; with both ratings, with
\* one, with an empty professor dict and with no professor key
ScorePool ==
    {[courseCode |-> "CMSC131", days |-> {"M", "W"},
      startTime |-> T24(9, 0), endTime |-> T24(9, 50),
      professor |-> [aggregatedScore |-> 40, planetTerpAvgGPA |-> 32]],
     [courseCode |-> "MATH140", days |-> {"M"},
      startTime |-> T24(10, 0), endTime |-> T24(10, 50),
      professor |-> [aggregatedScore |-> 25]],
     [courseCode |-> "ENGL101", days |-> {"M", "Tu"},
      startTime |-> T24(14, 0), endTime |-> T24(16, 0)],
     [courseCode |-> "PHYS161", days |-> {"Tu"},
      startTime |-> T12(5, 0, "pm"), endTime |-> T12(6, 15, "pm"),
      professor |-> EmptyDict]}

BooleanPreferences ==
    {"prioritizeProfessorRating", "prioritizeEasyGPA", "preferMorning",
     "preferAfternoon", "preferEvening", "avoidBackToBack"}

\* every preferences dict: each flag absent, True or False; preferredDays absent,
\* empty or Monday
ScorePreferences ==
    LET flags == UNION {[present -> BOOLEAN] : present \in SUBSET BooleanPreferences}
        withDays(f, preferredDays) ==
            [k \in DOMAIN f \cup {"preferredDays"} |->
                IF k = "preferredDays" THEN preferredDays ELSE f[k]]
    IN flags \cup {withDays(f, preferredDays) : f \in flags, preferredDays \in {{}, {"M"}}}

\* the candidate with the aggregatedScore of its i-th section raised by RatingStep,
\* from the default when the section has none
RaiseRating(sections, i) ==
    LET professor == Get(sections[i], "professor", EmptyDict)
        raisedProfessor ==
            [k \in DOMAIN professor \cup {"aggregatedScore"} |->
                IF k = "aggregatedScore"
                THEN Get(professor, "aggregatedScore", DefaultRating) + RatingStep
                ELSE professor[k]]
        raisedSection ==
            [k \in DOMAIN sections[i] \cup {"professor"} |->
                IF k = "professor" THEN raisedProfessor ELSE sections[i][k]]
    IN [sections EXCEPT ![i] = raisedSection]

\* the preferences with every absent field set to what UserPreferences declares
WithDefaults(prefs) ==
    [prioritizeProfessorRating |-> Get(prefs, "prioritizeProfessorRating", TRUE),
     prioritizeEasyGPA |-> Get(prefs, "prioritizeEasyGPA", FALSE),
     preferMorning |-> Get(prefs, "preferMorning", FALSE),
     preferAfternoon |-> Get(prefs, "preferAfternoon", FALSE),
     preferEvening |-> Get(prefs, "preferEvening", FALSE),
     preferredDays |-> Get(prefs, "preferredDays", {}),
     avoidBackToBack |-> Get(prefs, "avoidBackToBack", FALSE)]

\* _calculateScheduleScore(candidate, preferences), each sub-score it is made of,
\* the score of the same call with one rating raised or the defaults filled in, and
\* the gaps of a pass over the days, also when the date changes during the pass
scoreCandidate ==
    /\ ~scoreOut.scored
    /\ scoreOut' =
         [scored |-> TRUE,
          score |-> _calculateScheduleScore(candidate, preferences),
          rating |-> _calculateAverageProfessorRating(candidate),
          gpa |-> _calculateAverageGPA(candidate),
          time |-> _calculateTimePreferenceScore(candidate, preferences),
          day |-> _calculateDayPreferenceScore(candidate, preferences),
          backToBack |-> _calculateBackToBackPenalty(candidate),
          gap |-> _calculateGapScore(candidate),
          raised |-> [i \in 1..Len(candidate) |->
                         _calculateScheduleScore(RaiseRating(candidate, i), preferences)],
          defaulted |-> _calculateScheduleScore(candidate, WithDefaults(preferences)),
          gaps |-> AllGaps(candidate),
          gapsAt |-> [midnight \in 1..(2 * Len(AllGaps(candidate))) |->
                         AllGapsAt(candidate, midnight)]]
    /\ UNCHANGED <<requiredCourses, availableSections, preferences, maxSchedules, pc,
                   sectionLists, combinations, allSchedules, result,
                   section1, section2, conflictOut, candidate, dayMapping,
                   frames, allSchedulesOf, request, umdApi, response, stack>>

\* one section for each of up to MaxCandidate distinct courses
ScoreCandidates ==
    {sections \in SeqUpTo(ScorePool, MaxCandidate) :
        \A i, j \in 1..Len(sections) :
            i # j => sections[i].courseCode # sections[j].courseCode}

InitScore ==
    /\ candidate \in ScoreCandidates
    /\ preferences \in ScorePreferences
    /\ scoreOut = NoScoreOut
    /\ requiredCourses = <<>>
    /\ availableSections = EmptyDict
    /\ maxSchedules = 0
    /\ pc = "off"
    /\ sectionLists = <<>>
    /\ combinations = <<>>
    /\ allSchedules = <<>>
    /\ result = <<>>
    /\ section1 = EmptyDict
    /\ section2 = EmptyDict
    /\ conflictOut = NoConflictOut
    /\ dayMapping = DayMappingOfInit
    /\ frames = <<>>
    /\ allSchedulesOf = <<>>
    /\ request = NoRequest
    /\ umdApi = EmptyDict
    /\ response = NoResponse
    /\ stack = <<>>

NextScore == scoreCandidate

SpecScore == InitScore /\ [][NextScore]_vars

----------------------------------------------------------------------------
(* SpecMalformed: generateSchedules on sections with missing, null and        *)
(* unparseable fields, one section list of length 0 or 1 per required course  *)

\* longest requiredCourses of SpecMalformed
MaxMalformedCourses == 3

MalformedCourses == <<"CMSC131", "MATH140", "ENGL101", "PHYS161">>

MalformedSections ==
    {\* a section of the data model
     [days |-> {"M"}, startTime |-> T24(9, 0), endTime |-> T24(10, 0),
      professor |-> [aggregatedScore |-> 40, planetTerpAvgGPA |-> 32]],
     \* one that overlaps it
     [days |-> {"M"}, startTime |-> T24(9, 30), endTime |-> T24(10, 30),
      professor |-> EmptyDict],
     \* what parseSectionData returns for a section without meetings
     [days |-> {}, startTime |-> NoneStr, endTime |-> NoneStr],
     \* every key absent
     EmptyDict,
     \* days None
     [startTime |-> NoneStr, endTime |-> NoneStr, nulls |-> {"days"}],
     [startTime |-> T24(9, 0), endTime |-> T24(10, 0), nulls |-> {"days"}],
     \* times that do not parse
     [days |-> {"M"}, startTime |-> TextStr, endTime |-> T24(25, 0)],
     \* professor None, and a professor whose rating or GPA is None
     [days |-> {"M"}, startTime |-> T24(11, 0), endTime |-> T24(12, 0),
      nulls |-> {"professor"}],
     [days |-> {"M"}, startTime |-> T24(11, 0), endTime |-> T24(12, 0),
      professor |-> [nulls |-> {"aggregatedScore"}]],
     [days |-> {"M"}, startTime |-> T24(11, 0), endTime |-> T24(12, 0),
      professor |-> [nulls |-> {"planetTerpAvgGPA"}]]}

MalformedPreferences ==
    {EmptyDict,
     [prioritizeProfessorRating |-> FALSE],
     [prioritizeProfessorRating |-> FALSE, prioritizeEasyGPA |-> TRUE,
      preferredDays |-> {"M"}, avoidBackToBack |-> TRUE]}

InitMalformed ==
    /\ \E n \in 0..MaxMalformedCourses :
          /\ requiredCourses = SubSeq(MalformedCourses, 1, n)
          /\ availableSections \in
                [{MalformedCourses[i] : i \in 1..n} -> SeqUpTo(MalformedSections, 1)]
    /\ preferences \in MalformedPreferences
    /\ maxSchedules = MaxMalformedCourses
    /\ pc = "called"
    /\ sectionLists = <<>>
    /\ combinations = <<>>
    /\ allSchedules = <<>>
    /\ result = <<>>
    /\ section1 = EmptyDict
    /\ section2 = EmptyDict
    /\ conflictOut = NoConflictOut
    /\ candidate = <<>>
    /\ scoreOut = NoScoreOut
    /\ dayMapping = DayMappingOfInit
    /\ frames = <<>>
    /\ allSchedulesOf = <<>>
    /\ request = NoRequest
    /\ umdApi = EmptyDict
    /\ response = NoResponse
    /\ stack = <<>>

NextMalformed == generateSchedules

SpecMalformed == InitMalformed /\ [][NextMalformed]_vars

----------------------------------------------------------------------------
(* SpecConcurrent: NumCalls invocations of generateSchedules on the one        *)
(* module-level schedulingEngine, their statements interleaved in any order   *)

\* number of invocations in flight
NumCalls == 2

\* the sections of a course as a list, in the order of their start times
PoolList(course) ==
    CHOOSE l \in [1..Cardinality(Pool(course)) -> Pool(course)] :
        \A a, b \in DOMAIN l :
            a < b => _parseTime(l[a].startTime)[1] < _parseTime(l[b].startTime)[1]

\* the arguments the invocations are made with
ConcurrentCalls ==
    LET cmsc == PoolList("CMSC131")
        math == PoolList("MATH140")
    IN {[requiredCourses |-> <<"CMSC131", "MATH140">>,
         availableSections |-> [CMSC131 |-> cmsc, MATH140 |-> math],
         preferences |-> EmptyDict, maxSchedules |-> 2],
        [requiredCourses |-> <<"MATH140", "CMSC131">>,
         availableSections |-> [CMSC131 |-> cmsc, MATH140 |-> math],
         preferences |-> [prioritizeEasyGPA |-> TRUE, preferAfternoon |-> TRUE,
                          preferredDays |-> {"Tu"}],
         maxSchedules |-> 2],
        [requiredCourses |-> <<"MATH140">>,
         availableSections |-> [MATH140 |-> math],
         preferences |-> [prioritizeProfessorRating |-> FALSE, preferMorning |-> TRUE,
                          avoidBackToBack |-> TRUE],
         maxSchedules |-> 1],
        [requiredCourses |-> <<"CMSC131", "MATH140">>,
         availableSections |-> [CMSC131 |-> cmsc],
         preferences |-> EmptyDict, maxSchedules |-> 2],
        [requiredCourses |-> <<>>,
         availableSections |-> EmptyDict,
         preferences |-> EmptyDict, maxSchedules |-> 1]}

\* the frame of an invocation that has not run its first statement
NewFrame(args) ==
    [args |-> args, pc |-> "called", sectionLists |-> <<>>, combinations |-> <<>>,
     k |-> 0, result |-> <<>>, overlapped |-> FALSE]

\* mutant: allSchedules is kept on the engine (self.allSchedules), one cell for all
LocalsOfEngine(i) == 1

\* where invocation i keeps allSchedules: a local variable of its own (line 47)
LocalsOf(i) == i

\* an invocation between its first statement and its return
Running(j) == frames[j].pc \in {"combine", "loop"}

\* invocation i moves to newFrame; overlapped records that another invocation was
\* running at one of its steps
Stepped(i, newFrame) ==
    frames' = [j \in 1..NumCalls |->
                  IF j = i
                  THEN [newFrame EXCEPT !.overlapped =
                            @ \/ \E o \in 1..NumCalls : o # i /\ Running(o)]
                  ELSE IF Running(j) THEN [frames[j] EXCEPT !.overlapped = TRUE]
                  ELSE frames[j]]

\* an invocation touches nothing but its frame and its allSchedules
OutsideInvocations ==
    UNCHANGED <<requiredCourses, availableSections, preferences, maxSchedules, pc,
                sectionLists, combinations, allSchedules, result,
                section1, section2, conflictOut, candidate, scoreOut, dayMapping,
                request, umdApi, response, stack>>

\* lines 42-45
BuildSectionLists(i) ==
    /\ frames[i].pc = "called"
    /\ LET lists == SectionListsOf(frames[i].args.requiredCourses,
                                   frames[i].args.availableSections)
       IN Stepped(i, [frames[i] EXCEPT
                         !.sectionLists = lists,
                         !.pc = IF AllNonEmpty(lists) THEN "combine" ELSE "done"])
    /\ UNCHANGED allSchedulesOf
    /\ OutsideInvocations

\* lines 47-48: allSchedules = [] and the call of _generateCombinations
Combine(i) ==
    /\ frames[i].pc = "combine"
    /\ Stepped(i, [frames[i] EXCEPT
                      !.combinations = _generateCombinations(frames[i].sectionLists),
                      !.k = 1, !.pc = "loop"])
    /\ allSchedulesOf' = [allSchedulesOf EXCEPT ![LocalsOf(i)] = <<>>]
    /\ OutsideInvocations

\* lines 48-54: one turn of the loop
LoopStep(i) ==
    /\ frames[i].pc = "loop"
    /\ frames[i].k <= Len(frames[i].combinations)
    /\ LET combination == frames[i].combinations[frames[i].k]
       IN allSchedulesOf' =
              IF _hasValidTimeConflicts(combination)
              THEN [allSchedulesOf EXCEPT ![LocalsOf(i)] =
                       Append(@, [sections |-> combination,
                                  score |-> _calculateScheduleScore(combination,
                                                frames[i].args.preferences)])]
              ELSE allSchedulesOf
    /\ Stepped(i, [frames[i] EXCEPT !.k = @ + 1])
    /\ OutsideInvocations

\* lines 57-58: the sort in place and the slice returned
SortAndReturn(i) ==
    /\ frames[i].pc = "loop"
    /\ frames[i].k > Len(frames[i].combinations)
    /\ LET schedules == allSchedulesOf[LocalsOf(i)]
           sorted == SortedDescending(schedules,
                         [k \in 1..Len(schedules) |-> schedules[k].score])
       IN /\ allSchedulesOf' = [allSchedulesOf EXCEPT ![LocalsOf(i)] = sorted]
          /\ Stepped(i, [frames[i] EXCEPT
                            !.result = SliceTo(sorted, frames[i].args.maxSchedules),
                            !.pc = "done"])
    /\ OutsideInvocations

InitConcurrent ==
    /\ frames \in [1..NumCalls -> {NewFrame(args) : args \in ConcurrentCalls}]
    /\ allSchedulesOf = [i \in 1..NumCalls |-> <<>>]
    /\ request = NoRequest
    /\ umdApi = EmptyDict
    /\ response = NoResponse
    /\ stack = <<>>
    /\ dayMapping = DayMappingOfInit
    /\ requiredCourses = <<>>
    /\ availableSections = EmptyDict
    /\ preferences = EmptyDict
    /\ maxSchedules = 0
    /\ pc = "off"
    /\ sectionLists = <<>>
    /\ combinations = <<>>
    /\ allSchedules = <<>>
    /\ result = <<>>
    /\ section1 = EmptyDict
    /\ section2 = EmptyDict
    /\ conflictOut = NoConflictOut
    /\ candidate = <<>>
    /\ scoreOut = NoScoreOut

NextConcurrent ==
    \E i \in 1..NumCalls :
        \/ BuildSectionLists(i)
        \/ Combine(i)
        \/ LoopStep(i)
        \/ SortAndReturn(i)

SpecConcurrent == InitConcurrent /\ [][NextConcurrent]_vars

\* what generateSchedules returns for args when it runs alone
ResultAlone(args) ==
    LET lists == SectionListsOf(args.requiredCourses, args.availableSections)
    IN IF AllNonEmpty(lists)
       THEN TopSchedules(ScoredSchedules(_generateCombinations(lists), args.preferences),
                         args.maxSchedules)
       ELSE <<>>

----------------------------------------------------------------------------
(* SpecScenario: the end-to-end call with CMSC131 at 09:00 and at 14:00 and     *)
(* MATH140 at 10:00, all on Monday, Wednesday and Friday                      *)

ScenarioDays == {"M", "W", "F"}

\* the hour h as "HH:00"-"HH:50" or in the 12-hour form the schedule service gives
ScenarioTimes(h, twelveHour) ==
    IF twelveHour
    THEN [startTime |-> T12(IF h > 12 THEN h - 12 ELSE h, 0, IF h >= 12 THEN "pm" ELSE "am"),
          endTime |-> T12(IF h > 12 THEN h - 12 ELSE h, 50, IF h >= 12 THEN "pm" ELSE "am")]
    ELSE [startTime |-> T24(h, 0), endTime |-> T24(h, 50)]

\* a section of the scenario; professor is None for a section without the key
ScenarioSection(course, h, twelveHour, professor) ==
    LET times == ScenarioTimes(h, twelveHour)
        bare == [courseCode |-> course, days |-> ScenarioDays,
                 startTime |-> times.startTime, endTime |-> times.endTime]
    IN IF professor = None THEN bare
       ELSE [k \in DOMAIN bare \cup {"professor"} |->
                IF k = "professor" THEN professor[1] ELSE bare[k]]

\* no professor key (as parseSectionData returns), an empty professor, or one and
\* the same rated professor for every section
ScenarioProfessors ==
    {None, Some(EmptyDict), Some([aggregatedScore |-> 40, planetTerpAvgGPA |-> 32])}

\* preferMorning True or absent, every other field absent or at its default
ScenarioPreferences ==
    LET defaults == [prioritizeProfessorRating |-> TRUE, prioritizeEasyGPA |-> FALSE,
                     preferMorning |-> TRUE, preferAfternoon |-> FALSE,
                     preferEvening |-> FALSE, avoidBackToBack |-> FALSE]
    IN {[k \in present |-> defaults[k]] : present \in SUBSET DOMAIN defaults}

InitScenario ==
    /\ requiredCourses = <<"CMSC131", "MATH140">>
    /\ \E twelveHour \in BOOLEAN, professor \in ScenarioProfessors, first \in {9, 14} :
          availableSections =
              [CMSC131 |-> <<ScenarioSection("CMSC131", first, twelveHour, professor),
                             ScenarioSection("CMSC131", 23 - first, twelveHour, professor)>>,
               MATH140 |-> <<ScenarioSection("MATH140", 10, twelveHour, professor)>>]
    /\ preferences \in ScenarioPreferences
    /\ maxSchedules \in (0 - MaxSchedulesBound)..MaxSchedulesBound
    /\ pc = "called"
    /\ sectionLists = <<>>
    /\ combinations = <<>>
    /\ allSchedules = <<>>
    /\ result = <<>>
    /\ section1 = EmptyDict
    /\ section2 = EmptyDict
    /\ conflictOut = NoConflictOut
    /\ candidate = <<>>
    /\ scoreOut = NoScoreOut
    /\ dayMapping = DayMappingOfInit
    /\ frames = <<>>
    /\ allSchedulesOf = <<>>
    /\ request = NoRequest
    /\ umdApi = EmptyDict
    /\ response = NoResponse
    /\ stack = <<>>

NextScenario == generateSchedules

SpecScenario == InitScenario /\ [][NextScenario]_vars

----------------------------------------------------------------------------
(* SpecTime: the scorer on candidates whose sections start at the ends of the   *)
(* windows, under every setting of the three window flags                     *)

\* longest candidate of SpecTime
MaxTimeCandidate == 2

\* 07:59, 08:00, 11:59, 12:00, 16:59, 17:00, 20:59, 21:00, noon and half past
\* midnight in the 12-hour form, None and a text that is no time
TimeStarts ==
    {T24(7, 59), T24(8, 0), T24(11, 59), T24(12, 0), T24(16, 59), T24(17, 0),
     T24(20, 59), T24(21, 0), T12(12, 0, "pm"), T12(12, 30, "am"), NoneStr, TextStr}

TimeSections == {[startTime |-> t, endTime |-> T24(22, 0)] : t \in TimeStarts}

TimePreferences ==
    UNION {[present -> BOOLEAN] :
              present \in SUBSET {"preferMorning", "preferAfternoon", "preferEvening"}}

InitTime ==
    /\ candidate \in SeqUpTo(TimeSections, MaxTimeCandidate)
    /\ preferences \in TimePreferences
    /\ scoreOut = NoScoreOut
    /\ requiredCourses = <<>>
    /\ availableSections = EmptyDict
    /\ maxSchedules = 0
    /\ pc = "off"
    /\ sectionLists = <<>>
    /\ combinations = <<>>
    /\ allSchedules = <<>>
    /\ result = <<>>
    /\ section1 = EmptyDict
    /\ section2 = EmptyDict
    /\ conflictOut = NoConflictOut
    /\ dayMapping = DayMappingOfInit
    /\ frames = <<>>
    /\ allSchedulesOf = <<>>
    /\ request = NoRequest
    /\ umdApi = EmptyDict
    /\ response = NoResponse
    /\ stack = <<>>

NextTime == scoreCandidate

SpecTime == InitTime /\ [][NextTime]_vars

----------------------------------------------------------------------------
(* SpecGaps: the scorer on conflict-free candidates whose sections follow one   *)
(* another at the gaps the thresholds speak of                                *)

\* longest candidate of SpecGaps
MaxGapCandidate == 3

\* the minutes between 10:00 and the start of a following section
GapMinutes == {0, 14, 15, 29, 30, 90, 91, 180, 181}

MinuteOfDay(minutes) == T24(minutes \div 60, minutes % 60)

\* a section 09:00-10:00 on Monday and Wednesday; sections of 20 minutes that start
\* GapMinutes after it, on Monday, two of them on Wednesday too; and a section of no
\* length at 09:00
GapSections ==
    {[days |-> {"M", "W"}, startTime |-> T24(9, 0), endTime |-> T24(10, 0)]}
    \cup {[days |-> {"M"}, startTime |-> MinuteOfDay(600 + g),
           endTime |-> MinuteOfDay(620 + g)] : g \in GapMinutes}
    \cup {[days |-> {"M", "W"}, startTime |-> MinuteOfDay(600 + g),
           endTime |-> MinuteOfDay(620 + g)] : g \in {0, 30}}
    \cup {[days |-> {"M"}, startTime |-> T24(9, 0), endTime |-> T24(9, 0)]}

GapPreferences ==
    {EmptyDict,
     [avoidBackToBack |-> TRUE],
     [avoidBackToBack |-> FALSE, prioritizeProfessorRating |-> FALSE],
     [avoidBackToBack |-> TRUE, prioritizeEasyGPA |-> TRUE, preferMorning |-> TRUE,
      preferAfternoon |-> TRUE, preferEvening |-> TRUE, preferredDays |-> {"M"}]}

\* the scorer is called on the combinations that passed the filter (lines 50-51)
InitGaps ==
    /\ candidate \in {sections \in SeqUpTo(GapSections, MaxGapCandidate) :
                         _hasValidTimeConflicts(sections)}
    /\ preferences \in GapPreferences
    /\ scoreOut = NoScoreOut
    /\ requiredCourses = <<>>
    /\ availableSections = EmptyDict
    /\ maxSchedules = 0
    /\ pc = "off"
    /\ sectionLists = <<>>
    /\ combinations = <<>>
    /\ allSchedules = <<>>
    /\ result = <<>>
    /\ section1 = EmptyDict
    /\ section2 = EmptyDict
    /\ conflictOut = NoConflictOut
    /\ dayMapping = DayMappingOfInit
    /\ frames = <<>>
    /\ allSchedulesOf = <<>>
    /\ request = NoRequest
    /\ umdApi = EmptyDict
    /\ response = NoResponse
    /\ stack = <<>>

NextGaps == scoreCandidate

SpecGaps == InitGaps /\ [][NextGaps]_vars

----------------------------------------------------------------------------
(* SpecRoute: POST /generate (api/routes/schedules.py), which fetches the    *)
(* sections of every required course, calls the engine and answers           *)

\* longest requiredCourses of a request
MaxRouteCourses == 2
\* longest list of sections the sections API answers with
MaxRawSections == 2

\* maxSchedules=5 in the route's call of the engine
RouteMaxSchedules == 5

\* the sections the API of the schedule of classes knows, as it sends them
RawPool(course) ==
    IF course = "CMSC131"
    THEN {[section |-> "0101",
           meetings |-> <<[days |-> {"M", "W"}, start_time |-> T12(9, 0, "am"),
                           end_time |-> T12(9, 50, "am")]>>],
          \* two meetings: the lecture and a discussion
          [section |-> "0201",
           meetings |-> <<[days |-> {"M", "W"}, start_time |-> T12(2, 0, "pm"),
                           end_time |-> T12(2, 50, "pm")],
                          [days |-> {"F"}, start_time |-> T12(9, 0, "am"),
                           end_time |-> T12(9, 50, "am")]>>]}
    ELSE {[section |-> "0111",
           meetings |-> <<[days |-> {"M"}, start_time |-> T12(9, 30, "am"),
                           end_time |-> T12(2, 30, "pm")]>>],
          \* a section without meetings
          [section |-> "0211", meetings |-> <<>>]}

\* what the API does with GET /courses/{courseId}/sections: the request raises
\* (network), or answers with a status code and a JSON body (a list without
\* repeated sections)
ApiAnswers(course) ==
    {[raised |-> TRUE, status_code |-> 0, json |-> <<>>]}
    \cup {[raised |-> FALSE, status_code |-> 404, json |-> sections] :
             sections \in {<<>>, <<CHOOSE raw \in RawPool(course) : TRUE>>}}
    \cup {[raised |-> FALSE, status_code |-> 200, json |-> sections] :
             sections \in {l \in SeqUpTo(RawPool(course), MaxRawSections) :
                              \A a, b \in DOMAIN l : a # b => l[a] # l[b]}}

\* mutant: the body is returned whatever the status code
getSectionsAnyStatus(answer) ==
    IF answer.raised THEN <<>> ELSE answer.json

\* UMDScheduleService.getSections: [] on a status other than 200 and on an exception
getSections(answer) ==
    IF answer.raised THEN <<>>
    ELSE IF answer.status_code = 200 THEN answer.json
    ELSE <<>>

\* UMDScheduleService.parseSectionData: days and times of the first meeting;
\* the keys the engine never reads (semester, year, building, room, seats,
\* instructors) are left out
parseSectionData(rawSection) ==
    LET meetings == Get(rawSection, "meetings", <<>>)
    IN IF meetings # <<>>
       THEN [sectionNumber |-> rawSection.section,
             days |-> Get(meetings[1], "days", {}),
             startTime |-> Get(meetings[1], "start_time", NoneStr),
             endTime |-> Get(meetings[1], "end_time", NoneStr)]
       ELSE [sectionNumber |-> rawSection.section,
             days |-> {}, startTime |-> NoneStr, endTime |-> NoneStr]

\* UserPreferences(...).dict(): every field, with its default when not given;
\* preferredDays and preferredTopics are None by default
UserPreferencesDict(given) ==
    LET flags == [preferMorning |-> Get(given, "preferMorning", FALSE),
                  preferAfternoon |-> Get(given, "preferAfternoon", FALSE),
                  preferEvening |-> Get(given, "preferEvening", FALSE),
                  avoidBackToBack |-> Get(given, "avoidBackToBack", FALSE),
                  prioritizeProfessorRating |->
                      Get(given, "prioritizeProfessorRating", TRUE),
                  prioritizeEasyGPA |-> Get(given, "prioritizeEasyGPA", FALSE),
                  maxCreditsPerSemester |-> 18,
                  minCreditsPerSemester |-> 12]
    IN IF "preferredDays" \in DOMAIN given
       THEN flags @@ [preferredDays |-> given.preferredDays,
                      nulls |-> {"preferredTopics"}]
       ELSE flags @@ [nulls |-> {"preferredDays", "preferredTopics"}]

\* ScheduleResponse(...) validates its fields when it is constructed: createdAt
\* is declared datetime, required and not Optional, so None is refused
\* (ValidationError); score is Optional[float] and sections a list
ScheduleResponseRaises(fields) == fields.createdAt = None

\* request.requiredCourses or []
RequiredOf(req) ==
    IF req.requiredCourses = None THEN <<>> ELSE req.requiredCourses[1]

\* availableSections as the loop of lines 29-42 fills it
FetchedSections(req, api) ==
    [courseCode \in {RequiredOf(req)[i] : i \in 1..Len(RequiredOf(req))} |->
        LET sections == getSections(api[courseCode])
        IN [i \in 1..Len(sections) |-> parseSectionData(sections[i])]]

\* what schedulingEngine.generateSchedules does with the arguments of the route
EngineCall(required, available, prefs, n) ==
    LET lists == SectionListsOf(required, available)
        combos == IF AllNonEmpty(lists) THEN _generateCombinations(lists) ELSE <<>>
        raises == AllNonEmpty(lists) /\ LoopRaises(combos, prefs)
        scored == IF raises THEN <<>> ELSE ScoredSchedules(combos, prefs)
    IN [sectionLists |-> lists, combinations |-> combos, raised |-> raises,
        allSchedules |-> scored, result |-> TopSchedules(scored, n)]

\* async def generateSchedules(request: ScheduleRequest) of the route: the try
\* block of lines 25-67 and the except clause of lines 69-70
routeGenerateSchedules ==
    /\ request # NoRequest
    /\ response = NoResponse
    /\ LET required == RequiredOf(request)
           available == FetchedSections(request, umdApi)
           prefs == IF request.preferences = None THEN EmptyDict
                    ELSE UserPreferencesDict(request.preferences[1])
           engine == EngineCall(required, available, prefs, RouteMaxSchedules)
           entries == [idx \in 1..Len(engine.result) |->
                          [id |-> idx, userId |-> 1, semester |-> request.semester,
                           year |-> request.year, sections |-> <<>>,
                           score |-> engine.result[idx].score, isActive |-> FALSE,
                           createdAt |-> None]]
       IN /\ requiredCourses' = required
          /\ availableSections' = available
          /\ preferences' = prefs
          /\ maxSchedules' = RouteMaxSchedules
          /\ sectionLists' = engine.sectionLists
          /\ combinations' = engine.combinations
          /\ allSchedules' = engine.allSchedules
          /\ result' = engine.result
          /\ pc' = IF engine.raised THEN "raised" ELSE "done"
          \* except Exception as error: HTTPException(status_code=500, ...)
          /\ response' =
                IF engine.raised
                THEN [status |-> 500, body |-> <<>>, detail |-> "TypeError"]
                ELSE IF \E idx \in 1..Len(entries) : ScheduleResponseRaises(entries[idx])
                THEN [status |-> 500, body |-> <<>>, detail |-> "ValidationError"]
                ELSE [status |-> 200, body |-> entries, detail |-> ""]
    /\ UNCHANGED <<request, umdApi, section1, section2, conflictOut, candidate,
                   scoreOut, dayMapping, frames, allSchedulesOf, stack>>

RoutePreferencesGiven ==
    {EmptyDict, [preferMorning |-> TRUE],
     [preferredDays |-> {"F"}, avoidBackToBack |-> TRUE,
      prioritizeProfessorRating |-> FALSE]}

RouteRequests ==
    {[userId |-> "u1", semester |-> "Fall", year |-> 2025,
      requiredCourses |-> required, preferences |-> given] :
        required \in {None} \cup {Some(courses) :
                                     courses \in SeqUpTo(Courses, MaxRouteCourses)},
        given \in {None} \cup {Some(g) : g \in RoutePreferencesGiven}}

InitRoute ==
    /\ request \in RouteRequests
    /\ umdApi \in {api \in [Courses -> UNION {ApiAnswers(c) : c \in Courses}] :
                      \A c \in Courses : api[c] \in ApiAnswers(c)}
    /\ response = NoResponse
    /\ requiredCourses = <<>>
    /\ availableSections = EmptyDict
    /\ preferences = EmptyDict
    /\ maxSchedules = 0
    /\ pc = "off"
    /\ sectionLists = <<>>
    /\ combinations = <<>>
    /\ allSchedules = <<>>
    /\ result = <<>>
    /\ section1 = EmptyDict
    /\ section2 = EmptyDict
    /\ conflictOut = NoConflictOut
    /\ candidate = <<>>
    /\ scoreOut = NoScoreOut
    /\ dayMapping = DayMappingOfInit
    /\ frames = <<>>
    /\ allSchedulesOf = <<>>
    /\ stack = <<>>

NextRoute == routeGenerateSchedules

SpecRoute == InitRoute /\ [][NextRoute]_vars

----------------------------------------------------------------------------
(* SpecSteps: one call of generateSchedules taken statement by statement,    *)
(* with the recursion of _generateCombinations on a call stack.  The frame   *)
(* of generateSchedules is the bottom of the stack; its locals are the       *)
(* variables sectionLists, combinations and allSchedules.                    *)

\* longest requiredCourses of SpecSteps
MaxStepCourses == 3
\* frames the stack may hold (the interpreter's recursion limit)
MaxStackDepth == 6

Frame(fn, at, lists) ==
    [fn |-> fn, at |-> at, sectionLists |-> lists, restCombinations |-> <<>>,
     combinations |-> <<>>, i |-> 1, j |-> 1]

Top == stack[Len(stack)]

\* mutant: the recursive call is given the whole list again
RestOfSame(lists) == lists

\* sectionLists[1:] of the recursive call (line 78)
RestOf(lists) == Tail(lists)

\* the callee returns value: its frame is popped and the caller goes on with it
Returned(value) ==
    LET caller == stack[Len(stack) - 1]
    IN IF caller.fn = "_generateCombinations"
       THEN /\ stack' = Append(SubSeq(stack, 1, Len(stack) - 2),
                               [caller EXCEPT !.restCombinations = value,
                                              !.at = "loop", !.i = 1, !.j = 1])
            /\ UNCHANGED combinations
       ELSE /\ stack' = Append(SubSeq(stack, 1, Len(stack) - 2),
                               [caller EXCEPT !.at = "loop", !.i = 1])
            /\ combinations' = value

\* what no step of the call writes
OutsideCall ==
    UNCHANGED <<requiredCourses, availableSections, preferences, maxSchedules,
                section1, section2, conflictOut, candidate, scoreOut, dayMapping,
                frames, allSchedulesOf, request, umdApi, response>>

\* lines 42-45
StepSectionLists ==
    /\ pc = "called" /\ Top.fn = "generateSchedules" /\ Top.at = "lists"
    /\ LET lists == SectionListsOf(requiredCourses, availableSections)
       IN /\ sectionLists' = lists
          /\ IF AllNonEmpty(lists)
             THEN /\ stack' = <<[Top EXCEPT !.at = "call"]>>
                  /\ UNCHANGED <<pc, result>>
             ELSE /\ stack' = <<>>
                  /\ result' = <<>>
                  /\ pc' = "done"
    /\ UNCHANGED <<combinations, allSchedules>>
    /\ OutsideCall

\* lines 47-48: allSchedules = [] and the call of _generateCombinations
StepCall ==
    /\ pc = "called" /\ Top.fn = "generateSchedules" /\ Top.at = "call"
    /\ Len(stack) < MaxStackDepth
    /\ allSchedules' = <<>>
    /\ stack' = <<[Top EXCEPT !.at = "wait"],
                  Frame("_generateCombinations", "entry", sectionLists)>>
    /\ UNCHANGED <<pc, result, sectionLists, combinations>>
    /\ OutsideCall

\* lines 70-71: return [[]]
StepBaseEmpty ==
    /\ pc = "called" /\ Top.fn = "_generateCombinations" /\ Top.at = "entry"
    /\ Top.sectionLists = <<>>
    /\ Returned(<< <<>> >>)
    /\ UNCHANGED <<pc, result, sectionLists, allSchedules>>
    /\ OutsideCall

\* lines 73-74: return [[section] for section in sectionLists[0]]
StepBaseSingle ==
    /\ pc = "called" /\ Top.fn = "_generateCombinations" /\ Top.at = "entry"
    /\ Len(Top.sectionLists) = 1
    /\ Returned([n \in 1..Len(Top.sectionLists[1]) |-> <<Top.sectionLists[1][n]>>])
    /\ UNCHANGED <<pc, result, sectionLists, allSchedules>>
    /\ OutsideCall

\* lines 76-78: combinations = [] and the recursive call
StepRecurse ==
    /\ pc = "called" /\ Top.fn = "_generateCombinations" /\ Top.at = "entry"
    /\ Len(Top.sectionLists) >= 2
    /\ Len(stack) < MaxStackDepth
    /\ stack' = Append(Append(SubSeq(stack, 1, Len(stack) - 1),
                              [Top EXCEPT !.at = "wait", !.combinations = <<>>]),
                       Frame("_generateCombinations", "entry",
                             RestOf(Top.sectionLists)))
    /\ UNCHANGED <<pc, result, sectionLists, combinations, allSchedules>>
    /\ OutsideCall

\* lines 80-82: one turn of the inner loop
StepAppend ==
    /\ pc = "called" /\ Top.fn = "_generateCombinations" /\ Top.at = "loop"
    /\ Top.i <= Len(Top.sectionLists[1])
    /\ Top.restCombinations # <<>>
    /\ LET last == Top.j = Len(Top.restCombinations)
       IN stack' = Append(SubSeq(stack, 1, Len(stack) - 1),
                      [Top EXCEPT
                          !.combinations =
                              Append(@, <<Top.sectionLists[1][Top.i]>>
                                        \o Top.restCombinations[Top.j]),
                          !.i = IF last THEN @ + 1 ELSE @,
                          !.j = IF last THEN 1 ELSE @ + 1])
    /\ UNCHANGED <<pc, result, sectionLists, combinations, allSchedules>>
    /\ OutsideCall

\* line 84: return combinations, once the loops are through
StepReturnCombinations ==
    /\ pc = "called" /\ Top.fn = "_generateCombinations" /\ Top.at = "loop"
    /\ Top.i > Len(Top.sectionLists[1]) \/ Top.restCombinations = <<>>
    /\ Returned(Top.combinations)
    /\ UNCHANGED <<pc, result, sectionLists, allSchedules>>
    /\ OutsideCall

\* the sections and the preferences of the calls of SpecSteps
StepSections ==
    Pool("CMSC131") \cup Pool("MATH140")
    \cup {[startTime |-> T24(9, 0), endTime |-> T24(10, 0), nulls |-> {"days"}]}

StepPreferences == {EmptyDict, [preferMorning |-> TRUE, avoidBackToBack |-> TRUE]}

\* _calculateScheduleScore(sections, preferences) for the conflict-free
\* candidates of these calls, tabulated once (@@ makes the table explicit)
StepScores ==
    [call \in StepPreferences \X {c \in SeqUpTo(StepSections, MaxStepCourses) :
                                     _hasValidTimeConflicts(c)} |->
        _calculateScheduleScore(call[2], call[1])] @@ EmptyDict

\* the filter or the scorer raises on this combination
CombinationRaises(combination, prefs) ==
    \/ _hasValidTimeConflictsRaises(combination)
    \/ /\ _hasValidTimeConflicts(combination)
       /\ _calculateScheduleScoreRaises(combination, prefs)

\* lines 48-54: one turn of the loop over the combinations
StepLoop ==
    /\ pc = "called" /\ Top.fn = "generateSchedules" /\ Top.at = "loop"
    /\ Top.i <= Len(combinations)
    /\ LET combination == combinations[Top.i]
       IN IF CombinationRaises(combination, preferences)
          THEN /\ pc' = "raised"
               /\ stack' = <<>>
               /\ UNCHANGED allSchedules
          ELSE /\ allSchedules' =
                     IF _hasValidTimeConflicts(combination)
                     THEN Append(allSchedules,
                              [sections |-> combination,
                               score |-> StepScores[<<preferences, combination>>]])
                     ELSE allSchedules
               /\ stack' = <<[Top EXCEPT !.i = @ + 1]>>
               /\ UNCHANGED pc
    /\ UNCHANGED <<result, sectionLists, combinations>>
    /\ OutsideCall

\* lines 57-58: the sort in place and the slice returned
StepSortAndReturn ==
    /\ pc = "called" /\ Top.fn = "generateSchedules" /\ Top.at = "loop"
    /\ Top.i > Len(combinations)
    /\ LET sorted == SortedDescending(allSchedules,
                         [k \in 1..Len(allSchedules) |-> allSchedules[k].score])
       IN /\ allSchedules' = sorted
          /\ result' = SliceTo(sorted, maxSchedules)
    /\ pc' = "done"
    /\ stack' = <<>>
    /\ UNCHANGED <<sectionLists, combinations>>
    /\ OutsideCall

\* availableSections of SpecSteps: every course with its sections, a course
\* without sections, a course absent, and a section whose days are None
StepAvailableSections ==
    {[course \in Courses |-> PoolList(course)],
     [CMSC131 |-> PoolList("CMSC131"), MATH140 |-> <<>>],
     [CMSC131 |-> PoolList("CMSC131")],
     [CMSC131 |-> PoolList("CMSC131"),
      MATH140 |-> <<CHOOSE section \in StepSections : IsNone(section, "days")>>]}

InitSteps ==
    /\ requiredCourses \in SeqUpTo(Courses, MaxStepCourses)
    /\ availableSections \in StepAvailableSections
    /\ preferences \in StepPreferences
    /\ maxSchedules = MaxSchedulesBound
    /\ pc = "called"
    /\ stack = <<Frame("generateSchedules", "lists", <<>>)>>
    /\ sectionLists = <<>>
    /\ combinations = <<>>
    /\ allSchedules = <<>>
    /\ result = <<>>
    /\ section1 = EmptyDict
    /\ section2 = EmptyDict
    /\ conflictOut = NoConflictOut
    /\ candidate = <<>>
    /\ scoreOut = NoScoreOut
    /\ dayMapping = DayMappingOfInit
    /\ frames = <<>>
    /\ allSchedulesOf = <<>>
    /\ request = NoRequest
    /\ umdApi = EmptyDict
    /\ response = NoResponse

NextSteps ==
    \/ StepSectionLists
    \/ StepCall
    \/ StepBaseEmpty
    \/ StepBaseSingle
    \/ StepRecurse
    \/ StepAppend
    \/ StepReturnCombinations
    \/ StepLoop
    \/ StepSortAndReturn

\* the interpreter goes on with the next statement: the call has no await, so
\* nothing but the call itself decides whether it takes its next step
SpecSteps == InitSteps /\ [][NextSteps]_vars /\ WF_vars(NextSteps)

----------------------------------------------------------------------------
(* What the claims speak of, stated from the arguments of the call *)

\* the section list of the i-th required course; none when the course is absent
ListFor(i) ==
    IF requiredCourses[i] \in DOMAIN availableSections
    THEN availableSections[requiredCourses[i]]
    ELSE <<>>

\* one way of choosing one section per required course: the index chosen in each list
Choices ==
    {f \in [1..Len(requiredCourses) -> 1..(MaxSections + 1)] :
        \A i \in 1..Len(requiredCourses) : f[i] <= Len(ListFor(i))}

Candidate(f) == [i \in 1..Len(requiredCourses) |-> ListFor(i)[f[i]]]

HasConflictingPair(sections) ==
    \E i, j \in 1..Len(sections) :
        i # j /\ _hasTimeConflict(sections[i], sections[j])

ConflictFreeChoices == {f \in Choices : ~HasConflictingPair(Candidate(f))}

ScheduleOf(f) ==
    [sections |-> Candidate(f), score |-> _calculateScheduleScore(Candidate(f), preferences)]

CountIn(lst, x) == Cardinality({k \in 1..Len(lst) : lst[k] = x})

StartOf(section) == _parseTime(Get(section, "startTime", NoneStr))
EndOf(section) == _parseTime(Get(section, "endTime", NoneStr))
Parseable(section) == StartOf(section) # None /\ EndOf(section) # None
ShareDay(s1, s2) == Get(s1, "days", {}) \cap Get(s2, "days", {}) # {}

----------------------------------------------------------------------------
(* C1 *)

\* C1: every schedule generateSchedules returns is conflict-free: no two sections
\* at distinct positions of a returned schedule conflict (_hasTimeConflict).
C1_ReturnedSchedulesConflictFree ==
    pc = "done" =>
        \A k \in 1..Len(result) :
            \A i, j \in 1..Len(result[k].sections) :
                i # j => ~_hasTimeConflict(result[k].sections[i], result[k].sections[j])

\* a call that rejected a combination and returned a schedule of two sections that
\* share a day and have times
C1_Witness ==
    /\ pc = "done"
    /\ Len(allSchedules) < Len(combinations)
    /\ \E k \in 1..Len(result) :
          /\ Len(result[k].sections) = 2
          /\ ShareDay(result[k].sections[1], result[k].sections[2])
          /\ Parseable(result[k].sections[1])
          /\ Parseable(result[k].sections[2])

----------------------------------------------------------------------------
(* C2 *)

InfeasibleCourse ==
    \E i \in 1..Len(requiredCourses) :
        \/ requiredCourses[i] \notin DOMAIN availableSections
        \/ availableSections[requiredCourses[i]] = <<>>

EveryCombinationConflicts ==
    \A f \in Choices : HasConflictingPair(Candidate(f))

\* C2: generateSchedules returns the empty sequence when a required course is
\* absent from availableSections or has no section, whatever the other courses
\* offer, and when every combination holds a conflicting pair.
C2_InfeasibleReturnsEmpty ==
    (pc = "done" /\ (InfeasibleCourse \/ EveryCombinationConflicts)) => result = <<>>

\* a call with one course that has sections and one absent course has returned
C2_Witness ==
    /\ pc = "done"
    /\ \E i, j \in 1..Len(requiredCourses) :
          /\ requiredCourses[i] \notin DOMAIN availableSections
          /\ requiredCourses[j] \in DOMAIN availableSections
          /\ Len(availableSections[requiredCourses[j]]) = MaxSections
    /\ maxSchedules >= 1
    /\ result = <<>>

----------------------------------------------------------------------------
(* C3 *)

\* C3: for maxSchedules = N >= 1, generateSchedules returns min(N, V) schedules, V
\* the number of conflict-free combinations; each is a conflict-free combination
\* with its score, the scores do not increase along the result, and a
\* conflict-free combination that was left out has no score above a returned one.
C3_TopNByScore ==
    (pc = "done" /\ maxSchedules >= 1) =>
        /\ Len(result) = Min(maxSchedules, Cardinality(ConflictFreeChoices))
        /\ \A k \in 1..Len(result) :
              \E f \in ConflictFreeChoices : result[k] = ScheduleOf(f)
        /\ \A k \in 1..(Len(result) - 1) : result[k].score >= result[k + 1].score
        /\ \A f \in ConflictFreeChoices :
              LET x == ScheduleOf(f)
                  offered == Cardinality({g \in ConflictFreeChoices : ScheduleOf(g) = x})
              IN /\ CountIn(result, x) <= offered
                 /\ CountIn(result, x) < offered =>
                       \A k \in 1..Len(result) : x.score <= result[k].score

\* a call that returned fewer schedules than there are conflict-free combinations,
\* and left out one of a lower score
C3_Witness ==
    /\ pc = "done"
    /\ maxSchedules >= 1
    /\ Len(result) = maxSchedules
    /\ Cardinality(ConflictFreeChoices) > maxSchedules
    /\ \E f \in ConflictFreeChoices :
          /\ CountIn(result, ScheduleOf(f)) = 0
          /\ ScheduleOf(f).score < result[Len(result)].score

----------------------------------------------------------------------------
(* C4 *)

\* C4: for every maxSchedules <= 0, generateSchedules returns the empty
\* sequence, whatever the number of conflict-free combinations.
C4_NonPositiveReturnsEmpty ==
    (pc = "done" /\ maxSchedules <= 0) => result = <<>>

----------------------------------------------------------------------------
(* C5 - C9: the conflict filter on two sections (SpecConflict) *)

\* the half-open intervals [start, end) of the two sections share a minute: when
\* they do, they share the later of the two starts
HalfOpenOverlap(s1, s2) ==
    \E t \in {StartOf(s1)[1], StartOf(s2)[1]} :
        /\ StartOf(s1)[1] <= t /\ t < EndOf(s1)[1]
        /\ StartOf(s2)[1] <= t /\ t < EndOf(s2)[1]

EndsAfterStart(s) == EndOf(s)[1] > StartOf(s)[1]
EndsAtStart(s) == EndOf(s)[1] = StartOf(s)[1]

\* the time of a zero-length section s lies strictly inside the interval of o
StrictlyInside(s, o) == StartOf(o)[1] < StartOf(s)[1] /\ StartOf(s)[1] < EndOf(o)[1]

\* C5 as claimed: two sections conflict iff their day sets intersect and their
\* half-open intervals overlap, for all sections with parseable times and
\* endTime >= startTime, endTime = startTime included.
C5_ConflictIffHalfOpenOverlap ==
    (/\ conflictOut.checked
     /\ Parseable(section1) /\ Parseable(section2)
     /\ EndOf(section1)[1] >= StartOf(section1)[1]
     /\ EndOf(section2)[1] >= StartOf(section2)[1])
    => (conflictOut.ab <=> (ShareDay(section1, section2)
                               /\ HalfOpenOverlap(section1, section2)))

\* C5 as amended: the equivalence holds when both sections have endTime > startTime;
\* a section with endTime = startTime, whose half-open interval is empty, is
\* flagged exactly when it shares a day with the other section and its time lies
\* strictly inside the other's interval.
C5_ConflictIffOverlapOfNonEmpty ==
    (conflictOut.checked /\ Parseable(section1) /\ Parseable(section2)) =>
        /\ (EndsAfterStart(section1) /\ EndsAfterStart(section2)) =>
              (conflictOut.ab <=> (ShareDay(section1, section2)
                                      /\ HalfOpenOverlap(section1, section2)))
        /\ (EndsAtStart(section1) /\ EndOf(section2)[1] >= StartOf(section2)[1]) =>
              (conflictOut.ab <=> (ShareDay(section1, section2)
                                      /\ StrictlyInside(section1, section2)))
        /\ (EndsAtStart(section2) /\ EndOf(section1)[1] >= StartOf(section1)[1]) =>
              (conflictOut.ab <=> (ShareDay(section1, section2)
                                      /\ StrictlyInside(section2, section1)))

\* two sections of positive length on a shared day that overlap without one
\* containing the other were flagged
C5_Witness ==
    /\ conflictOut.checked
    /\ Parseable(section1) /\ Parseable(section2)
    /\ ShareDay(section1, section2)
    /\ StartOf(section1)[1] < StartOf(section2)[1]
    /\ StartOf(section2)[1] < EndOf(section1)[1]
    /\ EndOf(section1)[1] < EndOf(section2)[1]
    /\ conflictOut.ab

\* C6: two sections that share a day, one ending when the other starts, are not
\* flagged, and the candidate made of them passes the filter.
C6_TouchingDoNotConflict ==
    (/\ conflictOut.checked
     /\ ShareDay(section1, section2)
     /\ \/ (EndOf(section1) # None /\ EndOf(section1) = StartOf(section2))
        \/ (EndOf(section2) # None /\ EndOf(section2) = StartOf(section1)))
    => (~conflictOut.ab /\ ~conflictOut.ba /\ conflictOut.valid)

\* section1 ends at 10:00, written "10:00", and section2 starts at 10:00, written
\* "10:00am", on a shared day; both have positive length
C6_Witness ==
    /\ conflictOut.checked
    /\ ShareDay(section1, section2)
    /\ Parseable(section1) /\ Parseable(section2)
    /\ EndOf(section1) = StartOf(section2)
    /\ section1.endTime # section2.startTime
    /\ EndsAfterStart(section1) /\ EndsAfterStart(section2)
    /\ ~conflictOut.ab
    /\ conflictOut.valid

\* C7: two sections that share a day and whose intervals properly overlap (each
\* starts strictly before the other ends) are flagged; two sections with disjoint
\* day sets are not flagged, whatever their times.
C7_OverlapConflictsDisjointDaysDoNot ==
    conflictOut.checked =>
        /\ (/\ ShareDay(section1, section2)
            /\ Parseable(section1) /\ Parseable(section2)
            /\ StartOf(section1)[1] < EndOf(section2)[1]
            /\ StartOf(section2)[1] < EndOf(section1)[1])
           => (conflictOut.ab /\ conflictOut.ba /\ ~conflictOut.valid)
        /\ ~ShareDay(section1, section2)
           => (~conflictOut.ab /\ ~conflictOut.ba /\ conflictOut.valid)

\* two sections with the same overlapping times, on disjoint non-empty day sets
C7_Witness ==
    /\ conflictOut.checked
    /\ "days" \in DOMAIN section1 /\ "days" \in DOMAIN section2
    /\ section1.days # {} /\ section2.days # {}
    /\ ~ShareDay(section1, section2)
    /\ Parseable(section1) /\ Parseable(section2)
    /\ EndsAfterStart(section1) /\ EndsAfterStart(section2)
    /\ HalfOpenOverlap(section1, section2)
    /\ ~conflictOut.ab

\* C8: _hasTimeConflict(A, B) = _hasTimeConflict(B, A) for any two sections,
\* sections with missing or unparseable times included.
C8_ConflictSymmetric ==
    conflictOut.checked => (conflictOut.ab = conflictOut.ba)

\* two different sections, the later one first, were flagged in both orders
C8_Witness ==
    /\ conflictOut.checked
    /\ Parseable(section1) /\ Parseable(section2)
    /\ StartOf(section1)[1] > StartOf(section2)[1]
    /\ EndOf(section1)[1] > EndOf(section2)[1]
    /\ conflictOut.ab /\ conflictOut.ba

\* C9: a section whose startTime or endTime is missing or does not parse
\* conflicts with no section, and so does not make the filter reject a candidate.
C9_UnparseableNeverConflicts ==
    (conflictOut.checked /\ (~Parseable(section1) \/ ~Parseable(section2)))
    => (~conflictOut.ab /\ ~conflictOut.ba /\ conflictOut.valid)

\* a section whose startTime is a text that is no time, checked against a section
\* with times on a shared day
C9_Witness ==
    /\ conflictOut.checked
    /\ ShareDay(section1, section2)
    /\ "startTime" \in DOMAIN section1 /\ section1.startTime = TextStr
    /\ EndOf(section1) # None
    /\ Parseable(section2) /\ EndsAfterStart(section2)
    /\ ~conflictOut.ab /\ ~conflictOut.ba
    /\ conflictOut.valid

----------------------------------------------------------------------------
(* C10 *)

RECURSIVE ProductOfLens(_)
ProductOfLens(lists) ==
    IF lists = <<>> THEN 1 ELSE Len(Head(lists)) * ProductOfLens(Tail(lists))

\* the ways of choosing one index per list of sectionLists
ListChoices ==
    {f \in [1..Len(sectionLists) -> 1..(MaxSections + 1)] :
        \A i \in 1..Len(sectionLists) : f[i] <= Len(sectionLists[i])}

ChosenFrom(f) == [i \in 1..Len(sectionLists) |-> sectionLists[i][f[i]]]

DistinctWithinLists ==
    \A i \in 1..Len(sectionLists) :
        \A a, b \in 1..Len(sectionLists[i]) :
            a # b => sectionLists[i][a] # sectionLists[i][b]

\* C10: from non-empty section lists of sizes n1..nk, _generateCombinations
\* returns n1*...*nk candidates: every choice of one section per list is among
\* them, every candidate is such a choice, and none is repeated when the sections
\* of each list are distinct.
C10_CartesianProduct ==
    (pc = "done" /\ AllNonEmpty(sectionLists)) =>
        /\ Len(combinations) = ProductOfLens(sectionLists)
        /\ \A f \in ListChoices :
              \E k \in 1..Len(combinations) : combinations[k] = ChosenFrom(f)
        /\ \A k \in 1..Len(combinations) :
              \E f \in ListChoices : combinations[k] = ChosenFrom(f)
        /\ DistinctWithinLists =>
              \A k, l \in 1..Len(combinations) :
                  k # l => combinations[k] # combinations[l]

\* the combinations of two lists of two distinct sections each
C10_Witness ==
    /\ pc = "done"
    /\ Len(sectionLists) = 2
    /\ Len(sectionLists[1]) = 2 /\ Len(sectionLists[2]) = 2
    /\ DistinctWithinLists
    /\ Len(combinations) = 4

----------------------------------------------------------------------------
(* C11 *)

\* the sections availableSections offers for the i-th required course
OfferedFor(i) == {ListFor(i)[a] : a \in 1..Len(ListFor(i))}

OnePerRequiredCourse(sections) ==
    /\ Len(sections) = Len(requiredCourses)
    /\ \A i \in 1..Len(sections) : sections[i] \in OfferedFor(i)

\* C11: every candidate generated and every schedule returned has
\* len(requiredCourses) sections, the i-th one an element of
\* availableSections[requiredCourses[i]].
C11_OneSectionPerCourseInOrder ==
    pc = "done" =>
        /\ \A k \in 1..Len(combinations) : OnePerRequiredCourse(combinations[k])
        /\ \A k \in 1..Len(allSchedules) : OnePerRequiredCourse(allSchedules[k].sections)
        /\ \A k \in 1..Len(result) : OnePerRequiredCourse(result[k].sections)

\* a call for two different courses that generated candidates and returned one
C11_Witness ==
    /\ pc = "done"
    /\ Len(requiredCourses) = 2
    /\ requiredCourses[1] # requiredCourses[2]
    /\ Len(combinations) > 1
    /\ Len(result) >= 1
    /\ result[1].sections[1].courseCode = requiredCourses[1]
    /\ result[1].sections[2].courseCode = requiredCourses[2]

----------------------------------------------------------------------------
(* C12 *)

\* C12: with requiredCourses empty and maxSchedules >= 1, exactly one candidate
\* is generated, it has no section, it passes the conflict filter and it is
\* returned as the only schedule.
C12_EmptyRequiredGivesOneEmptySchedule ==
    (pc = "done" /\ requiredCourses = <<>> /\ maxSchedules >= 1) =>
        /\ combinations = << <<>> >>
        /\ Len(allSchedules) = 1
        /\ Len(result) = 1
        /\ result[1].sections = <<>>

\* a call without required courses, with sections on offer, has returned
C12_Witness ==
    /\ pc = "done"
    /\ requiredCourses = <<>>
    /\ maxSchedules >= 1
    /\ DOMAIN availableSections = Courses
    /\ Len(result) = 1

----------------------------------------------------------------------------
(* The scorer's claims, stated on the call recorded in scoreOut *)

\* a flag as the claims read it: its value, and its documented default when absent
RatingOn == IF "prioritizeProfessorRating" \in DOMAIN preferences
            THEN preferences.prioritizeProfessorRating ELSE TRUE
GPAOn == IF "prioritizeEasyGPA" \in DOMAIN preferences
         THEN preferences.prioritizeEasyGPA ELSE FALSE
BackToBackOn == IF "avoidBackToBack" \in DOMAIN preferences
                THEN preferences.avoidBackToBack ELSE FALSE
NoPreferredDays == "preferredDays" \notin DOMAIN preferences \/ preferences.preferredDays = {}

\* C13: for the empty candidate the rating, GPA, time-of-day, back-to-back and gap
\* terms each contribute 0, under every combination of flags, so that the score is
\* only the day-preference term.
C13_EmptyCandidateScoresDayTermOnly ==
    (scoreOut.scored /\ candidate = <<>>) =>
        /\ scoreOut.time = 0
        /\ scoreOut.backToBack = 0
        /\ scoreOut.gap = 0
        /\ scoreOut.score = 10 * scoreOut.day

\* C14: the score is 20*meanRating (only when prioritizeProfessorRating)
\* + 15*meanGPA (only when prioritizeEasyGPA) + 25*timeFraction + 10*dayFraction
\* - 10*backToBackCount (only when avoidBackToBack) + 5*gapUnits, and nothing else.
C14_ScoreIsWeightedSum ==
    scoreOut.scored =>
        scoreOut.score =
            (IF RatingOn THEN 20 * scoreOut.rating ELSE 0)
            + (IF GPAOn THEN 15 * scoreOut.gpa ELSE 0)
            + 25 * scoreOut.time
            + 10 * scoreOut.day
            - (IF BackToBackOn THEN 10 * scoreOut.backToBack ELSE 0)
            + 5 * scoreOut.gap

C14_Witness ==
    /\ scoreOut.scored
    /\ Len(candidate) = 2
    /\ RatingOn /\ GPAOn /\ BackToBackOn
    /\ scoreOut.time > 0
    /\ scoreOut.backToBack > 0

\* C15: raising one section's professor aggregatedScore, all else unchanged, strictly
\* increases the score of a non-empty candidate when prioritizeProfessorRating is
\* true and leaves it unchanged when it is false.
C15_RaisedRatingRaisesScore ==
    scoreOut.scored =>
        \A i \in 1..Len(candidate) :
            IF RatingOn THEN scoreOut.raised[i] > scoreOut.score
            ELSE scoreOut.raised[i] = scoreOut.score

C15_Witness ==
    /\ scoreOut.scored
    /\ Len(candidate) = 2
    /\ "prioritizeProfessorRating" \in DOMAIN preferences
    /\ preferences.prioritizeProfessorRating
    /\ scoreOut.raised[2] > scoreOut.score

\* C16: the day sub-score is 1.0 for every candidate when preferredDays is empty or
\* unset, and otherwise the fraction of the candidate's sections whose day set
\* intersects preferredDays.
C16_DayScoreNeutralOrFraction ==
    scoreOut.scored =>
        IF NoPreferredDays THEN scoreOut.day = Unit
        ELSE Len(candidate) > 0 =>
                scoreOut.day * Len(candidate) =
                    Unit * Cardinality({i \in 1..Len(candidate) :
                               candidate[i].days \cap preferences.preferredDays # {}})

C16_Witness ==
    /\ scoreOut.scored
    /\ ~NoPreferredDays
    /\ Len(candidate) = 2
    /\ 0 < scoreOut.day
    /\ scoreOut.day < Unit

\* C18: a preferences record with absent fields scores every candidate as the record
\* with those fields set to their documented defaults does.
C18_AbsentFieldsScoreAsDefaults ==
    scoreOut.scored => scoreOut.defaulted = scoreOut.score

C18_Witness ==
    /\ scoreOut.scored
    /\ preferences = EmptyDict
    /\ Len(candidate) = 2
    /\ scoreOut.backToBack > 0
    /\ scoreOut.gpa # scoreOut.rating

----------------------------------------------------------------------------
(* Malformed section data *)

\* C17: generateSchedules never raises on malformed section data: with days,
\* startTime, endTime, professor or a rating missing (absent or None) or a time
\* unparseable, the call completes.
C17_MalformedNeverRaises == pc # "raised"

----------------------------------------------------------------------------
(* Frame *)

\* C19: generateSchedules has no side effect on its inputs or on the engine: no step
\* of a call changes requiredCourses, availableSections (its section lists and their
\* sections), preferences or the engine's fields.
C19_InputsAndEngineUnchanged ==
    [][/\ requiredCourses' = requiredCourses
       /\ availableSections' = availableSections
       /\ preferences' = preferences
       /\ dayMapping' = dayMapping]_vars

C19_Witness ==
    /\ pc = "done"
    /\ Len(requiredCourses) = 2
    /\ Len(result) >= 1
    /\ \A i \in 1..Len(requiredCourses) : Len(ListFor(i)) = 2

----------------------------------------------------------------------------
(* Interleaved invocations *)

\* C20: whatever the interleaving of the invocations on the shared engine, each one
\* returns what it returns when it runs alone, and none writes the engine's state.
C20_InterleavedAsAlone ==
    /\ \A i \in DOMAIN frames :
          frames[i].pc = "done" => frames[i].result = ResultAlone(frames[i].args)
    /\ dayMapping = DayMappingOfInit

C20_Witness ==
    \E i, j \in DOMAIN frames :
        /\ i # j
        /\ frames[i].pc = "done" /\ frames[j].pc = "done"
        /\ frames[i].overlapped /\ frames[j].overlapped
        /\ frames[i].args # frames[j].args
        /\ Len(frames[i].result) = 2
        /\ Len(frames[j].result) >= 1

----------------------------------------------------------------------------
(* Ties *)

\* g is enumerated before f by the Cartesian product: the choice for the earliest
\* course on which they differ is the earlier one
GeneratedBefore(g, f) ==
    \E i \in DOMAIN f : g[i] < f[i] /\ \A j \in 1..(i - 1) : g[j] = f[j]

\* the place of a conflict-free choice by score, equal scores in generation order
PlaceOf(f) ==
    Cardinality({g \in ConflictFreeChoices :
        \/ ScheduleOf(g).score > ScheduleOf(f).score
        \/ ScheduleOf(g).score = ScheduleOf(f).score /\ GeneratedBefore(g, f)}) + 1

\* C21: when conflict-free candidates have equal scores the call does not raise and
\* returns them, relative to each other, in generation order: the k-th schedule
\* returned is the k-th by descending score with ties in generation order.
C21_TiesInGenerationOrder ==
    /\ pc # "raised"
    /\ pc = "done" =>
          \A k \in 1..Len(result) :
              \E f \in ConflictFreeChoices : PlaceOf(f) = k /\ result[k] = ScheduleOf(f)

C21_Witness ==
    /\ pc = "done"
    /\ \E k \in 1..(Len(result) - 1) :
          /\ result[k].score = result[k + 1].score
          /\ result[k].sections # result[k + 1].sections

----------------------------------------------------------------------------
(* The end-to-end scenario *)

StartsAt(section, h) == StartOf(section) = Some(h * 60)

\* C22: in the scenario two combinations are generated, both are conflict-free and
\* both are returned when maxSchedules >= 2, and with preferMorning = true the one
\* with the 09:00 CMSC131 section is returned before the one with the 14:00 section.
C22_ScenarioMorningFirst ==
    (pc = "done" /\ maxSchedules >= 2) =>
        /\ Len(combinations) = 2
        /\ \A k \in 1..2 : ~HasConflictingPair(combinations[k])
        /\ Len(result) = 2
        /\ \E k \in 1..2 : StartsAt(result[k].sections[1], 9)
        /\ \E k \in 1..2 : StartsAt(result[k].sections[1], 14)
        /\ ("preferMorning" \in DOMAIN preferences) =>
              /\ StartsAt(result[1].sections[1], 9)
              /\ StartsAt(result[2].sections[1], 14)
              /\ result[1].score > result[2].score

\* the 14:00 section is listed first, and preferMorning brought the 09:00 one forward
C22_Witness ==
    /\ pc = "done"
    /\ maxSchedules >= 2
    /\ "preferMorning" \in DOMAIN preferences
    /\ StartsAt(availableSections["CMSC131"][1], 14)
    /\ StartsAt(result[1].sections[1], 9)
    /\ Len(result) = 2

----------------------------------------------------------------------------
(* The time-of-day sub-score *)

WindowOn(flag) == flag \in DOMAIN preferences /\ preferences[flag]

\* the section starts in a window that is active
InActiveWindow(section) ==
    /\ StartOf(section) # None
    /\ LET hour == StartOf(section)[1] \div 60
       IN \/ WindowOn("preferMorning") /\ 8 <= hour /\ hour < 12
          \/ WindowOn("preferAfternoon") /\ 12 <= hour /\ hour < 17
          \/ WindowOn("preferEvening") /\ 17 <= hour /\ hour < 21

\* C23: the time-of-day sub-score is the number of sections whose start hour lies in
\* an active window, [8,12), [12,17) or [17,21), each section counted once, divided
\* by the number of sections; a section whose start does not parse counts in the
\* denominator only, and the sub-score is 0 when no window is active.
C23_TimeScoreIsFractionInWindows ==
    (scoreOut.scored /\ Len(candidate) > 0) =>
        /\ scoreOut.time * Len(candidate) =
              Unit * Cardinality({i \in 1..Len(candidate) : InActiveWindow(candidate[i])})
        /\ (~WindowOn("preferMorning") /\ ~WindowOn("preferAfternoon")
               /\ ~WindowOn("preferEvening")) => scoreOut.time = 0

\* all windows active, one section at noon and one without a start time: one half
C23_Witness ==
    /\ scoreOut.scored
    /\ Len(candidate) = 2
    /\ WindowOn("preferMorning") /\ WindowOn("preferAfternoon") /\ WindowOn("preferEvening")
    /\ StartOf(candidate[1]) = Some(12 * 60)
    /\ StartOf(candidate[2]) = None
    /\ 2 * scoreOut.time = Unit

----------------------------------------------------------------------------
(* Gaps *)

\* next start minus previous end, in minutes, for the consecutive sections of one
\* day's chain
TrueDayGaps(sortedSections) ==
    [i \in 1..(Len(sortedSections) - 1) |->
        StartOf(sortedSections[i + 1])[1] - EndOf(sortedSections[i])[1]]

\* the same for every day, the days taken in the order in which AllGaps takes them
RECURSIVE TrueGapsOverDays(_, _)
TrueGapsOverDays(days, sections) ==
    IF days = {} THEN <<>>
    ELSE LET day == CHOOSE d \in days : TRUE
         IN TrueDayGaps(SortedSections(DaySections(sections, day)))
            \o TrueGapsOverDays(days \ {day}, sections)

TrueGaps == TrueGapsOverDays(DaysOf(candidate), candidate)

CountGaps(P(_)) == Cardinality({k \in 1..Len(TrueGaps) : P(TrueGaps[k])})

TimesInOrder ==
    \A i \in 1..Len(candidate) :
        /\ Parseable(candidate[i])
        /\ EndOf(candidate[i])[1] >= StartOf(candidate[i])[1]

NoNegativeGap == \A k \in 1..Len(TrueGaps) : TrueGaps[k] >= 0

\* C24: the back-to-back count is the number, over every day, of pairs of sections
\* consecutive in the day's start-time order whose gap (next start minus previous
\* end) is strictly less than 15 minutes.
C24_BackToBackCountsGapsUnder15 ==
    scoreOut.scored =>
        LET under15(g) == g < 15
        IN scoreOut.backToBack = Unit * CountGaps(under15)

\* the count of C24 for the candidates none of whose gaps is negative
BackToBackCountWhereNoGapIsNegative ==
    (scoreOut.scored /\ NoNegativeGap) =>
        LET under15(g) == g < 15
        IN scoreOut.backToBack = Unit * CountGaps(under15)

\* C25: the gap sub-score adds +1 for each consecutive pair with a gap of 30 to 90
\* minutes inclusive, -0.5 for each with a gap strictly above 180 minutes, and 0
\* otherwise, under every setting of the preference flags.
C25_GapScoreByThresholds ==
    scoreOut.scored =>
        LET good(g) == 30 <= g /\ g <= 90
            large(g) == g > 180
        IN 2 * scoreOut.gap = 2 * Unit * CountGaps(good) - Unit * CountGaps(large)

\* the sub-score of C25 for the candidates none of whose gaps is negative
GapScoreWhereNoGapIsNegative ==
    (scoreOut.scored /\ NoNegativeGap) =>
        LET good(g) == 30 <= g /\ g <= 90
            large(g) == g > 180
        IN 2 * scoreOut.gap = 2 * Unit * CountGaps(good) - Unit * CountGaps(large)

\* thresholds met on both sides: gaps of 14 and 15, or 30 and 90, or 180 and 181
GapThresholdsReached ==
    /\ scoreOut.scored
    /\ NoNegativeGap
    /\ \E k \in 1..Len(TrueGaps) : TrueGaps[k] \in {0, 14, 30, 90, 181}
    /\ \E k \in 1..Len(TrueGaps) : TrueGaps[k] \in {15, 29, 91, 180}

\* C26: for a conflict-free candidate whose sections have parseable times with
\* endTime >= startTime, the gap the penalty and the gap score use for each
\* consecutive pair is the true difference in minutes and is never negative.
C26_GapsAreTrueDifferences ==
    (scoreOut.scored /\ TimesInOrder) =>
        /\ Len(scoreOut.gaps) = Len(TrueGaps)
        /\ \A k \in 1..Len(TrueGaps) :
              /\ scoreOut.gaps[k] = Some(TrueGaps[k])
              /\ TrueGaps[k] >= 0

\* C27: the result does not depend on the wall clock: a change of date between any
\* two of the reads of the current date leaves every computed gap unchanged.
C27_GapsIndependentOfDate ==
    scoreOut.scored =>
        \A midnight \in DOMAIN scoreOut.gapsAt : scoreOut.gapsAt[midnight] = scoreOut.gaps

\* three gaps were computed, a back-to-back one among them
C27_Witness ==
    /\ scoreOut.scored
    /\ Len(scoreOut.gaps) >= 3
    /\ Len(scoreOut.gapsAt) = 2 * Len(scoreOut.gaps)
    /\ scoreOut.backToBack > 0
    /\ scoreOut.gap # 0

----------------------------------------------------------------------------
(* The route *)

FetchFailed(course) == umdApi[course].raised \/ umdApi[course].status_code # 200

RequiredOfRequest == {RequiredOf(request)[i] : i \in 1..Len(RequiredOf(request))}

RouteAnswered == response # NoResponse

EmptyAnswer == [status |-> 200, body |-> <<>>, detail |-> ""]

\* C28: when the fetch of the sections of a required course fails (the request
\* raises or the status is not 200), getSections gives the empty list and the
\* route answers 200 with the empty list; it answers the same when every course
\* was fetched with sections and every combination has a conflict.
C28_FailedFetchAnswersAsNoSchedule ==
    RouteAnswered =>
        /\ \A course \in RequiredOfRequest :
              FetchFailed(course) =>
                  /\ availableSections[course] = <<>>
                  /\ response = EmptyAnswer
        /\ ( /\ \A course \in RequiredOfRequest : ~FetchFailed(course)
             /\ RequiredOfRequest # {}
             /\ ~InfeasibleCourse
             /\ EveryCombinationConflicts ) => response = EmptyAnswer

\* a fetch that was answered 404 with a body and one that raised, each next to a
\* course fetched with sections, and the empty answer
C28_Witness ==
    /\ RouteAnswered
    /\ response = EmptyAnswer
    /\ Len(RequiredOf(request)) = 2
    /\ \E failed, fetched \in RequiredOfRequest :
          /\ FetchFailed(failed)
          /\ ~umdApi[failed].raised => umdApi[failed].json # <<>>
          /\ ~FetchFailed(fetched)
          /\ availableSections[fetched] # <<>>

\* the other case of C28 is reached: all fetched, every combination conflicts
AllFetchedNoneConflictFreeReached ==
    /\ RouteAnswered
    /\ \A course \in RequiredOfRequest : ~FetchFailed(course)
    /\ RequiredOfRequest # {}
    /\ ~InfeasibleCourse
    /\ EveryCombinationConflicts

\* C29: when the engine returns k >= 1 schedules the route answers 200 with k
\* entries in the engine's order, the i-th with id i and the score of the
\* engine's i-th schedule.
C29_RouteAnswersWithEngineSchedules ==
    (RouteAnswered /\ pc = "done" /\ Len(result) >= 1) =>
        /\ response.status = 200
        /\ Len(response.body) = Len(result)
        /\ \A i \in 1..Len(result) :
              /\ response.body[i].id = i
              /\ response.body[i].score = result[i].score

\* what the route does answer then: the error response of the except clause
RouteAnswers500OnSchedules ==
    (RouteAnswered /\ pc = "done" /\ Len(result) >= 1) =>
        response = [status |-> 500, body |-> <<>>, detail |-> "ValidationError"]

----------------------------------------------------------------------------
(* Termination *)

\* a recursive call of _generateCombinations holds a strictly shorter list than
\* its caller
RecursesOnShorter ==
    \A d \in 2..Len(stack) :
        (stack[d].fn = "_generateCombinations"
            /\ stack[d - 1].fn = "_generateCombinations") =>
            Len(stack[d].sectionLists) < Len(stack[d - 1].sectionLists)

\* the loops stay within their lists
LoopsWithinLists ==
    \A d \in 1..Len(stack) :
        IF stack[d].fn = "generateSchedules"
        THEN stack[d].at = "loop" => stack[d].i \in 1..(Len(combinations) + 1)
        ELSE stack[d].at = "loop" =>
                 /\ stack[d].i \in 1..(Len(stack[d].sectionLists[1]) + 1)
                 /\ stack[d].j \in 1..Max(1, Len(stack[d].restCombinations))

CallReturned == pc \in {"done", "raised"}

\* C30: generateSchedules terminates on every input: each recursive call of
\* _generateCombinations is on a strictly shorter list, every loop stays within
\* its finite list, and the call, which waits for nothing, eventually returns
\* (or raises).
C30_Terminates ==
    /\ [](RecursesOnShorter /\ LoopsWithinLists)
    /\ <>CallReturned

\* a call on three courses that recursed twice, combined eight candidates and
\* returned schedules
C30_Witness ==
    /\ pc = "done"
    /\ stack = <<>>
    /\ Len(requiredCourses) = 3
    /\ Len(combinations) = 8
    /\ result # <<>>

====
